---- MODULE Spec2Model ----
(***************************************************************************)
(* prompt-forge: the prompt loader (scan, parse, validate, cache), and the *)
(* template renderer (variable validation, substitution).                  *)
(*                                                                         *)
(* JavaScript values are tagged records [t |-> <typeof-like tag>, v |-> _].*)
(* Strings are TLA+ strings; a character is a string of length one, read   *)
(* with SubSeq(s, i, i).                                                   *)
(***************************************************************************)
EXTENDS Integers, Sequences, FiniteSets, TLC

\* ------------------------------------------------------------------------
\* JavaScript values
\* ------------------------------------------------------------------------
Undef == [t |-> "undefined"]
Null == [t |-> "null"]
Str(s) == [t |-> "string", v |-> s]
Num(n) == [t |-> "number", v |-> n]
NaN == [t |-> "nan"]
Infinity == [t |-> "infinity"]
Bool(b) == [t |-> "boolean", v |-> b]
Arr(seq) == [t |-> "array", v |-> seq]
Obj(rec) == [t |-> "object", v |-> rec]
\* a mapping with arbitrary keys: a sequence of <<key, value>> pairs in
\* insertion order
Map(pairs) == [t |-> "map", v |-> pairs]

\* typeof x
TypeOf(x) ==
  CASE x.t = "undefined" -> "undefined"
    [] x.t = "string" -> "string"
    [] x.t \in {"number", "nan", "infinity"} -> "number"
    [] x.t = "boolean" -> "boolean"
    [] OTHER -> "object"

\* Array.isArray(x)
IsArray(x) == x.t = "array"

\* isNaN(x) for a value whose typeof is number
IsNaN(x) == x.t = "nan"

\* !x
Falsy(x) ==
  \/ x.t \in {"undefined", "null", "nan"}
  \/ x.t = "string" /\ x.v = ""
  \/ x.t = "number" /\ x.v = 0
  \/ x.t = "boolean" /\ x.v = FALSE

\* a < b on numbers (Infinity is above every integer; NaN compares false)
NumLess(a, b) ==
  CASE a.t = "nan" \/ b.t = "nan" -> FALSE
    [] a.t = "infinity" -> FALSE
    [] b.t = "infinity" -> TRUE
    [] OTHER -> a.v < b.v

\* ------------------------------------------------------------------------
\* Characters and the regular expressions of extractTemplateVariables
\* ------------------------------------------------------------------------
Lower == {"a", "b", "c", "d", "e", "f", "g", "h", "i", "j", "k", "l", "m",
          "n", "o", "p", "q", "r", "s", "t", "u", "v", "w", "x", "y", "z"}
Upper == {"A", "B", "C", "D", "E", "F", "G", "H", "I", "J", "K", "L", "M",
          "N", "O", "P", "Q", "R", "S", "T", "U", "V", "W", "X", "Y", "Z"}
Digit == {"0", "1", "2", "3", "4", "5", "6", "7", "8", "9"}
\* [a-zA-Z_]
IdStart == Lower \cup Upper \cup {"_"}
\* [a-zA-Z0-9_]
IdChar == IdStart \cup Digit
\* \s
Space == {" ", "\t", "\n", "\r"}

\* the character of s at index i (1-based), "" outside the string
ChAt(s, i) == IF i >= 1 /\ i <= Len(s) THEN SubSeq(s, i, i) ELSE ""

\* s.startsWith(lit, i)
LitAt(s, i, lit) ==
  /\ i >= 1
  /\ i + Len(lit) - 1 <= Len(s)
  /\ SubSeq(s, i, i + Len(lit) - 1) = lit

\* the first index >= i whose character is not in class (a greedy class*)
RECURSIVE SkipClass(_, _, _)
SkipClass(s, i, class) ==
  IF ChAt(s, i) \in class THEN SkipClass(s, i + 1, class) ELSE i

\* One attempt of /\{\{\s*KW([a-zA-Z_][a-zA-Z0-9_]*)\s*\}\}/ at index i, where
\* KW is empty, or "#if\s+", or "#unless\s+": <<identifier>> when it matches
\* there, <<>> when it does not.
MatchAt(s, i, kw) ==
  IF ~LitAt(s, i, "{{") THEN <<>>
  ELSE
    LET a == SkipClass(s, i + 2, Space)
        b == IF kw = "" THEN a
             ELSE IF LitAt(s, a, kw) /\ ChAt(s, a + Len(kw)) \in Space
                  THEN SkipClass(s, a + Len(kw), Space)
                  ELSE 0
    IN IF b = 0 \/ ChAt(s, b) \notin IdStart THEN <<>>
       ELSE LET c == SkipClass(s, b, IdChar)
                d == SkipClass(s, c, Space)
            IN IF LitAt(s, d, "}}") THEN <<SubSeq(s, b, c - 1)>> ELSE <<>>

\* seq with x appended unless it is there already (Set.add, insertion order)
SetAdd(seq, x) ==
  IF \E k \in 1..Len(seq) : seq[k] = x THEN seq ELSE Append(seq, x)

\* the indices at which one pattern matches, in ascending order
RECURSIVE Ascending(_)
Ascending(S) ==
  IF S = {} THEN <<>>
  ELSE LET m == CHOOSE a \in S : \A b \in S : a <= b
       IN <<m>> \o Ascending(S \ {m})

\* acc with every element of seq added in order
RECURSIVE AddAll(_, _)
AddAll(acc, seq) ==
  IF seq = <<>> THEN acc ELSE AddAll(SetAdd(acc, Head(seq)), Tail(seq))

\* pattern.exec in a loop over the whole template, for one pattern: matches
\* of one pattern cannot overlap, so the loop finds one at every index where
\* the pattern matches
ExecAll(s, kw, acc) ==
  LET at == Ascending({i \in 1..Len(s) : MatchAt(s, i, kw) # <<>>})
  IN AddAll(acc, [k \in 1..Len(at) |-> MatchAt(s, at[k], kw)[1]])

Patterns == <<"", "#if", "#unless">>

\* extractTemplateVariables: the identifiers in insertion order of the Set
ExtractTemplateVariables(template) ==
  ExecAll(template, Patterns[3],
    ExecAll(template, Patterns[2],
      ExecAll(template, Patterns[1], <<>>)))

\* the elements of a sequence
Range(seq) == {seq[k] : k \in 1..Len(seq)}

\* concatenation of a sequence of sequences
RECURSIVE Flatten(_)
Flatten(seqs) ==
  IF seqs = <<>> THEN <<>> ELSE Head(seqs) \o Flatten(Tail(seqs))

\* s.includes(sub)
Includes(s, sub) == \E i \in 1..(Len(s) + 1) : LitAt(s, i, sub)

\* ------------------------------------------------------------------------
\* The schema (PromptFileSchema and its parts) and Schema.safeParse
\* ------------------------------------------------------------------------
PromptVariableTypeSchema == {"text", "number", "boolean", "enum", "array"}

\* the type name the schema library reports for a value
ReceivedType(v) ==
  CASE v.t = "map" -> "object"
    [] v.t = "infinity" -> "number"
    [] OTHER -> v.t

\* one issue: the path of the offending field and the library's message
Issue(path, v, expected) ==
  [path |-> path,
   message |-> IF v.t = "undefined" THEN "Required"
               ELSE "Expected " \o expected \o ", received " \o ReceivedType(v)]

Sub(path, key) == IF path = "" THEN key ELSE path \o "." \o key

\* z.string()
StringIssues(v, path) ==
  IF v.t = "string" THEN <<>> ELSE <<Issue(path, v, "string")>>

\* z.string().optional()
OptStringIssues(v, path) ==
  IF v.t = "undefined" THEN <<>> ELSE StringIssues(v, path)

\* z.boolean().optional()
OptBooleanIssues(v, path) ==
  IF v.t \in {"undefined", "boolean"} THEN <<>>
  ELSE <<Issue(path, v, "boolean")>>

\* z.number().optional()
OptNumberIssues(v, path) ==
  IF v.t \in {"undefined", "number", "infinity"} THEN <<>>
  ELSE <<Issue(path, v, "number")>>

\* z.array(z.string()).optional()
OptStringArrayIssues(v, path) ==
  IF v.t = "undefined" THEN <<>>
  ELSE IF ~IsArray(v) THEN <<Issue(path, v, "array")>>
  ELSE Flatten([k \in 1..Len(v.v) |->
                  StringIssues(v.v[k], Sub(path, ToString(k - 1)))])

\* PromptVariableTypeSchema
TypeIssues(v, path) ==
  IF v.t = "string" /\ v.v \in PromptVariableTypeSchema THEN <<>>
  ELSE IF v.t = "string"
       THEN <<[path |-> path, message |-> "Invalid enum value"]>>
       ELSE <<Issue(path, v, "'text' | 'number' | 'boolean' | 'enum' | 'array'")>>

\* PromptVariableSchema
PromptVariableIssues(v, path) ==
  IF v.t # "object" THEN <<Issue(path, v, "object")>>
  ELSE StringIssues(v.v.name, Sub(path, "name"))
       \o TypeIssues(v.v.type, Sub(path, "type"))
       \o OptBooleanIssues(v.v.required, Sub(path, "required"))
       \o OptStringArrayIssues(v.v.values, Sub(path, "values"))
       \o OptNumberIssues(v.v.max_length, Sub(path, "max_length"))
       \o OptNumberIssues(v.v.min, Sub(path, "min"))
       \o OptNumberIssues(v.v.max, Sub(path, "max"))

\* PromptExampleSchema
PromptExampleIssues(v, path) ==
  IF v.t # "object" THEN <<Issue(path, v, "object")>>
  ELSE StringIssues(v.v.title, Sub(path, "title"))
       \o (IF v.v.variables.t = "map" THEN <<>>
           ELSE <<Issue(Sub(path, "variables"), v.v.variables, "object")>>)
       \o OptStringIssues(v.v.expected_output, Sub(path, "expected_output"))

\* z.array(PromptVariableSchema).optional()
OptVariableArrayIssues(v, path) ==
  IF v.t = "undefined" THEN <<>>
  ELSE IF ~IsArray(v) THEN <<Issue(path, v, "array")>>
  ELSE Flatten([k \in 1..Len(v.v) |->
                  PromptVariableIssues(v.v[k], Sub(path, ToString(k - 1)))])

\* z.array(PromptExampleSchema).optional()
OptExampleArrayIssues(v, path) ==
  IF v.t = "undefined" THEN <<>>
  ELSE IF ~IsArray(v) THEN <<Issue(path, v, "array")>>
  ELSE Flatten([k \in 1..Len(v.v) |->
                  PromptExampleIssues(v.v[k], Sub(path, ToString(k - 1)))])

\* the issues of PromptFileSchema, in the order of the schema's keys
PromptFileIssues(data) ==
  IF data.t # "object" THEN <<Issue("", data, "object")>>
  ELSE StringIssues(data.v.name, "name")
       \o StringIssues(data.v.title, "title")
       \o StringIssues(data.v.description, "description")
       \o OptStringIssues(data.v.category, "category")
       \o OptStringArrayIssues(data.v.tags, "tags")
       \o OptVariableArrayIssues(data.v.variables, "variables")
       \o OptExampleArrayIssues(data.v.examples, "examples")
       \o StringIssues(data.v.template, "template")

\* .optional().default([]) of an array
OrEmpty(v) == IF v.t = "undefined" THEN <<>> ELSE v.v

\* the parsed PromptVariable: required defaults to false
ParsedVariable(v) ==
  [name |-> v.v.name.v,
   type |-> v.v.type.v,
   required |-> IF v.v.required.t = "undefined" THEN FALSE
                ELSE v.v.required.v,
   values |-> v.v.values,
   max_length |-> v.v.max_length,
   min |-> v.v.min,
   max |-> v.v.max]

\* the parsed PromptExample
ParsedExample(v) ==
  [title |-> v.v.title.v,
   variables |-> v.v.variables,
   expected_output |-> v.v.expected_output]

\* the parsed PromptFile: tags, variables and examples default to []
ParsedFile(data) ==
  [name |-> data.v.name.v,
   title |-> data.v.title.v,
   description |-> data.v.description.v,
   category |-> data.v.category,
   tags |-> [k \in 1..Len(OrEmpty(data.v.tags)) |-> OrEmpty(data.v.tags)[k].v],
   variables |-> [k \in 1..Len(OrEmpty(data.v.variables)) |->
                    ParsedVariable(OrEmpty(data.v.variables)[k])],
   examples |-> [k \in 1..Len(OrEmpty(data.v.examples)) |->
                   ParsedExample(OrEmpty(data.v.examples)[k])],
   template |-> data.v.template.v]

\* Schema.safeParse(data)
SafeParse(data) ==
  LET issues == PromptFileIssues(data)
  IN IF issues = <<>>
     THEN [success |-> TRUE, issues |-> <<>>, data |-> <<ParsedFile(data)>>]
     ELSE [success |-> FALSE, issues |-> issues, data |-> <<>>]

\* ------------------------------------------------------------------------
\* prompt-validator.ts
\* ------------------------------------------------------------------------
NoField == "<undefined>"

formatZodErrors(issues, filePath) ==
  [k \in 1..Len(issues) |->
     [file |-> filePath,
      field |-> issues[k].path,
      message |-> issues[k].path \o ": " \o issues[k].message]]

\* no custom validation at all
NoCustomValidations(data, filePath) == <<>>

\* Validate variable names are unique
DuplicateErrors(variables, filePath) ==
  Flatten([k \in 1..Len(variables) |->
    IF \E j \in 1..(k - 1) : variables[j].name = variables[k].name
    THEN <<[file |-> filePath, field |-> "variables",
            message |-> "Duplicate variable name: " \o variables[k].name]>>
    ELSE <<>>])

\* Validate enum variables have values
EnumErrors(variables, filePath) ==
  Flatten([k \in 1..Len(variables) |->
    IF /\ variables[k].type = "enum"
       /\ (variables[k].values.t = "undefined"
           \/ Len(variables[k].values.v) = 0)
    THEN <<[file |-> filePath,
            field |-> "variables." \o variables[k].name,
            message |-> "Enum variable '" \o variables[k].name
                        \o "' must have at least one value"]>>
    ELSE <<>>])

\* new Set(variables.map(v => v.name))
DeclaredVariables(variables) == {variables[k].name : k \in 1..Len(variables)}

\* Validate template references match declared variables
TemplateErrors(template, variables, filePath) ==
  LET templateVariables == ExtractTemplateVariables(template)
  IN Flatten([k \in 1..Len(templateVariables) |->
       IF templateVariables[k] \notin DeclaredVariables(variables)
       THEN <<[file |-> filePath, field |-> "template",
               message |-> "Template references undefined variable: {{"
                           \o templateVariables[k] \o "}}"]>>
       ELSE <<>>])

\* Object.keys(example.variables)
Keys(map) == [k \in 1..Len(map.v) |-> map.v[k][1]]

\* Validate example variables match declared variables
ExampleErrors(examples, variables, filePath) ==
  Flatten([e \in 1..Len(examples) |->
    Flatten([k \in 1..Len(Keys(examples[e].variables)) |->
      IF Keys(examples[e].variables)[k] \notin DeclaredVariables(variables)
      THEN <<[file |-> filePath,
              field |-> "examples." \o examples[e].title,
              message |-> "Example '" \o examples[e].title
                          \o "' uses undefined variable: "
                          \o Keys(examples[e].variables)[k]]>>
      ELSE <<>>])])

\* the custom validations leaving after the first check that finds errors
FirstCustomValidation(data, filePath) ==
  IF DuplicateErrors(data.variables, filePath) # <<>>
  THEN DuplicateErrors(data.variables, filePath)
  ELSE IF EnumErrors(data.variables, filePath) # <<>>
  THEN EnumErrors(data.variables, filePath)
  ELSE IF TemplateErrors(data.template, data.variables, filePath) # <<>>
  THEN TemplateErrors(data.template, data.variables, filePath)
  ELSE ExampleErrors(data.examples, data.variables, filePath)

performCustomValidations(data, filePath) ==
  DuplicateErrors(data.variables, filePath)
  \o EnumErrors(data.variables, filePath)
  \o TemplateErrors(data.template, data.variables, filePath)
  \o ExampleErrors(data.examples, data.variables, filePath)

\* the ParsedPrompt built from validated data
MakePrompt(validated, filePath) ==
  [metadata |-> [name |-> validated.name,
                 title |-> validated.title,
                 description |-> validated.description,
                 category |-> validated.category,
                 tags |-> validated.tags,
                 variables |-> validated.variables,
                 examples |-> validated.examples],
   template |-> validated.template,
   filePath |-> filePath]

\* A PromptLoadResult; prompt holds the prompt, or nothing.  threw says that
\* the call ended in an exception instead of a result.
Failure(errors) ==
  [threw |-> FALSE, success |-> FALSE, prompt |-> <<>>, errors |-> errors]
Success(prompt) ==
  [threw |-> FALSE, success |-> TRUE, prompt |-> <<prompt>>, errors |-> <<>>]
Thrown(message) ==
  [threw |-> TRUE, success |-> FALSE, prompt |-> <<>>,
   errors |-> <<[file |-> "", field |-> NoField, message |-> message]>>]

validatePromptData(data, filePath) ==
  LET result == SafeParse(data)
  IN IF ~result.success
     THEN Failure(formatZodErrors(result.issues, filePath))
     ELSE LET validated == result.data[1]
              customErrors == performCustomValidations(validated, filePath)
          IN IF Len(customErrors) > 0
             THEN Failure(customErrors)
             ELSE Success(MakePrompt(validated, filePath))

\* ------------------------------------------------------------------------
\* The file system: the prompts directory and what its files hold
\* ------------------------------------------------------------------------
RawVariable(name, type, required, values, max_length, min, max) ==
  Obj([name |-> name, type |-> type, required |-> required,
       values |-> values, max_length |-> max_length, min |-> min,
       max |-> max])

RawExample(title, variables) ==
  Obj([title |-> title, variables |-> variables, expected_output |-> Undef])

RawFile(name, title, description, category, tags, variables, examples, template) ==
  Obj([name |-> name, title |-> title, description |-> description,
       category |-> category, tags |-> tags, variables |-> variables,
       examples |-> examples, template |-> template])

LangVariable ==
  RawVariable(Str("lang"), Str("enum"), Bool(TRUE),
              Arr(<<Str("Go"), Str("Rust")>>), Undef, Undef, Undef)

TitleVariable ==
  RawVariable(Str("title"), Str("text"), Bool(TRUE), Undef, Num(5), Undef,
              Undef)

ShoutVariable ==
  RawVariable(Str("shout"), Str("boolean"), Undef, Undef, Undef, Undef,
              Undef)

CountVariable ==
  RawVariable(Str("count"), Str("number"), Bool(TRUE), Undef, Undef, Num(1),
              Num(3))

ItemsVariable ==
  RawVariable(Str("items"), Str("array"), Bool(FALSE), Undef, Undef, Undef,
              Undef)

\* a text variable limited to the empty string, and a number without bounds
NoteVariable ==
  RawVariable(Str("note"), Str("text"), Bool(FALSE), Undef, Num(0), Undef,
              Undef)

ScoreVariable ==
  RawVariable(Str("score"), Str("number"), Undef, Undef, Undef, Undef,
              Undef)

\* enum variables without values, and with an empty list of them
ModeVariable ==
  RawVariable(Str("mode"), Str("enum"), Undef, Undef, Undef, Undef, Undef)

KindVariable ==
  RawVariable(Str("kind"), Str("enum"), Undef, Arr(<<>>), Undef, Undef,
              Undef)

\* the variables of the example prompt of the helper reference
TechnologiesVariable ==
  RawVariable(Str("technologies"), Str("array"), Bool(TRUE), Undef, Undef,
              Undef, Undef)

PriorityVariable ==
  RawVariable(Str("priority"), Str("enum"), Bool(TRUE),
              Arr(<<Str("low"), Str("medium"), Str("high")>>), Undef, Undef,
              Undef)

ComplexityVariable ==
  RawVariable(Str("complexity"), Str("number"), Bool(FALSE), Undef, Undef,
              Undef, Undef)

\* the template of that example, without the tokens that hold a quoted
\* string
HelperTemplate ==
  "# {{upper priority}} {{#if technologies}}{{first technologies}} "
  \o "{{#if (gt (length technologies) 1)}}{{last technologies}}"
  \o "{{else}}None{{/if}}{{/if}} "
  \o "{{#if complexity}}{{formatNumber complexity}}/10{{/if}} "
  \o "{{#each technologies}}- {{titleCase this}}{{/each}}"

\* What a file can hold: read is the error readFile rejects with ("" when it
\* resolves), yaml the error yaml.load throws ("" when it returns), data the
\* value yaml.load returns.
Text(data) == [read |-> "", yaml |-> "", data |-> data]

FileContent ==
  [absent |-> [read |-> "ENOENT: no such file or directory", yaml |-> "",
               data |-> Undef],
   unreadable |-> [read |-> "EACCES: permission denied", yaml |-> "",
                   data |-> Undef],
   badyaml |-> [read |-> "", yaml |-> "bad indentation of a mapping entry",
                data |-> Undef],
   empty |-> Text(Undef),
   review |-> Text(RawFile(Str("code-review"), Str("Code Review"),
                Str("Structured code review"), Str("development"),
                Arr(<<Str("review")>>), Arr(<<LangVariable>>),
                Arr(<<RawExample(Str("Go"),
                                 Map(<< <<"lang", Str("Go")>> >>))>>),
                Str("Language: {{lang}}"))),
   greeting |-> Text(RawFile(Str("greeting"), Str("Greeting"),
                  Str("Says hello"), Undef, Undef,
                  Arr(<<TitleVariable, ShoutVariable>>), Undef,
                  Str("Hello {{title}}{{#if shout}}!{{/if}}"))),
   greeting2 |-> Text(RawFile(Str("greeting"), Str("Greeting again"),
                   Str("Says hello twice"), Str("social"), Undef,
                   Arr(<<TitleVariable>>), Undef,
                   Str("Hello, hello {{ title }}"))),
   unused |-> Text(RawFile(Str("unused-ref"), Str("Unused"),
                Str("References an undeclared variable"), Undef, Undef,
                Undef, Undef, Str("Value: {{unused}}"))),
   notitle |-> Text(RawFile(Num(42), Undef, Str("No title"), Undef, Undef,
                 Undef, Undef, Str("Hi"))),
   report |-> Text(RawFile(Str("report"), Str("Report"),
                Str("Counts items"), Str("development"), Undef,
                Arr(<<CountVariable, ItemsVariable, LangVariable>>), Undef,
                Str("{{count}} of {{items}}{{#if items}} in {{lang}}{{/if}}"))),
   broken |-> Text(RawFile(Str("broken"), Str("Broken"),
                Str("A mustache that is never closed"), Undef, Undef,
                Arr(<<ShoutVariable>>), Undef, Str("Hi {{shout"))),
   limits |-> Text(RawFile(Str("limits"), Str("Limits"),
                Str("An empty note and a free score"), Undef, Undef,
                Arr(<<NoteVariable, ScoreVariable>>), Undef,
                Str("{{note}}:{{score}}"))),
   twice |-> Text(RawFile(Str("twice"), Str("Twice"),
               Str("A name declared twice"), Undef, Undef,
               Arr(<<TitleVariable, TitleVariable>>), Undef,
               Str("Hello {{title}}"))),
   triple |-> Text(RawFile(Str("triple"), Str("Triple"),
                Str("A name declared three times"), Undef, Undef,
                Arr(<<LangVariable, LangVariable, LangVariable>>), Undef,
                Str("Language: {{lang}}"))),
   noenum |-> Text(RawFile(Str("noenum"), Str("No values"),
                Str("Enum variables without values"), Undef, Undef,
                Arr(<<ModeVariable, KindVariable>>), Undef,
                Str("{{mode}} {{kind}}"))),
   badexample |-> Text(RawFile(Str("badexample"), Str("Bad example"),
                    Str("An example with an undeclared key"), Undef, Undef,
                    Arr(<<LangVariable>>),
                    Arr(<<RawExample(Str("Rust"),
                            Map(<< <<"lang", Str("Rust")>>,
                                   <<"level", Num(2)>> >>))>>),
                    Str("Language: {{lang}}"))),
   ghosts |-> Text(RawFile(Str("ghosts"), Str("Ghosts"),
                Str("Blocks over undeclared variables"), Undef, Undef,
                Arr(<<ShoutVariable>>), Undef,
                Str("{{#if ghost}}a{{/if}}{{#unless phantom}}b{{/unless}}"))),
   tangled |-> Text(RawFile(Str("tangled"), Str("Tangled"),
                 Str("Every cross-reference violation at once"), Undef,
                 Undef, Arr(<<TitleVariable, ModeVariable, TitleVariable>>),
                 Arr(<<RawExample(Str("One"),
                         Map(<< <<"level", Num(2)>> >>))>>),
                 Str("{{title}} {{ghost}}"))),
   mixed |-> Text(RawFile(Str("mixed"), Undef,
               Str("No title, and an undeclared reference"), Undef, Undef,
               Arr(<<TitleVariable>>), Undef, Str("{{title}} {{ghost}}"))),
   upper |-> Text(RawFile(Str("upper"), Str("Upper"),
               Str("A helper name alone in a mustache"), Undef, Undef,
               Arr(<<TitleVariable>>), Undef, Str("{{title}} {{upper}}"))),
   helpers |-> Text(RawFile(Str("advanced-example"),
                 Str("Advanced Helper Example"),
                 Str("Demonstrates various Handlebars helpers"),
                 Str("examples"),
                 Arr(<<Str("demo"), Str("helpers"), Str("advanced")>>),
                 Arr(<<TechnologiesVariable, PriorityVariable,
                       ComplexityVariable>>), Undef,
                 Str(HelperTemplate))),
   tagged |-> Text(RawFile(Str("summary"), Str("Summary"),
                Str("Short digest"), Undef,
                Arr(<<Str("Docs"), Str("TL;DR")>>), Undef, Undef,
                Str("Sum")))]

\* the names of these contents
Contents == {"absent", "unreadable", "badyaml", "empty", "review",
             "greeting", "greeting2", "unused", "notitle", "report",
             "broken", "limits", "twice", "triple", "noenum", "badexample",
             "ghosts", "tangled", "mixed", "upper", "helpers", "tagged"}

\* the entries of the prompts directory in the order readdir lists them;
\* the first three may hold any of Contents, README.md is always there
Entries == <<"a.yaml", "b.yml", "c.YAML", "README.md">>
Candidates == {"a.yaml", "b.yml", "c.YAML"}

\* a bound of the model: how many calls (loadPrompts, clearCache, a change
\* of a file) one behaviour makes
MaxCalls == 3

\* String.prototype.toLowerCase
LowerOf ==
  [A |-> "a", B |-> "b", C |-> "c", D |-> "d", E |-> "e", F |-> "f",
   G |-> "g", H |-> "h", I |-> "i", J |-> "j", K |-> "k", L |-> "l",
   M |-> "m", N |-> "n", O |-> "o", P |-> "p", Q |-> "q", R |-> "r",
   S |-> "s", T |-> "t", U |-> "u", V |-> "v", W |-> "w", X |-> "x",
   Y |-> "y", Z |-> "z"]

RECURSIVE ToLowerCase(_)
ToLowerCase(s) ==
  IF s = "" THEN ""
  ELSE (IF ChAt(s, 1) \in Upper THEN LowerOf[ChAt(s, 1)] ELSE ChAt(s, 1))
       \o ToLowerCase(SubSeq(s, 2, Len(s)))

\* path.extname
ExtName(entry) ==
  LET dots == {i \in 1..Len(entry) : ChAt(entry, i) = "."}
      last == CHOOSE i \in dots : \A j \in dots : j <= i
  IN IF dots = {} \/ last = 1 THEN "" ELSE SubSeq(entry, last, Len(entry))

\* path.join(directory, entry)
Join(directory, entry) == directory \o "/" \o entry

promptsDirectory == "prompts"

\* the full path of each candidate file
Paths == {Join(promptsDirectory, e) : e \in Candidates}

\* what each candidate file may hold in the states explored
CanHold ==
  Join(promptsDirectory, "a.yaml")
    :> {"absent", "unreadable", "review", "greeting", "unused"}
  @@ Join(promptsDirectory, "b.yml")
    :> {"absent", "badyaml", "greeting", "greeting2", "notitle"}
  @@ Join(promptsDirectory, "c.YAML")
    :> {"absent", "empty", "review", "greeting2"}

\* scanForPromptFiles over the directory: dir maps the path of each
\* candidate file to what it holds.  stat fails for an entry that is not there, and the entry is
\* skipped; an entry with another extension is left out.
ScanEntry(dir, entry) ==
  IF Join(promptsDirectory, entry) \in DOMAIN dir
     /\ dir[Join(promptsDirectory, entry)] = "absent"
  THEN <<>>
  ELSE IF ToLowerCase(ExtName(entry)) \in {".yaml", ".yml"}
       THEN <<Join(promptsDirectory, entry)>>
       ELSE <<>>

scanForPromptFiles(dir) ==
  Flatten([k \in 1..Len(Entries) |-> ScanEntry(dir, Entries[k])])

\* ------------------------------------------------------------------------
\* scanForPromptFiles over a directory tree
\* ------------------------------------------------------------------------
\* the entries a directory of the tree can hold
TreeChildren ==
  promptsDirectory :> {"a.yaml", "b.YML", "notes.txt", "sub"}
  @@ Join(promptsDirectory, "sub") :> {"c.yml", "deep"}
  @@ Join(Join(promptsDirectory, "sub"), "deep") :> {"e.yaml"}

\* What each path of the tree can be: absent, a regular file, a directory,
\* nostat for an entry stat fails on, nolist for a directory readdir fails
\* on.  b.YML may be a directory that holds nothing.
TreeKinds ==
  promptsDirectory :> {"dir", "nolist"}
  @@ Join(promptsDirectory, "a.yaml") :> {"absent", "file", "nostat"}
  @@ Join(promptsDirectory, "b.YML") :> {"file", "dir"}
  @@ Join(promptsDirectory, "notes.txt") :> {"file"}
  @@ Join(promptsDirectory, "sub") :> {"absent", "dir", "nolist", "nostat"}
  @@ Join(Join(promptsDirectory, "sub"), "c.yml") :> {"file", "nostat"}
  @@ Join(Join(promptsDirectory, "sub"), "deep") :> {"dir", "nolist"}
  @@ Join(Join(Join(promptsDirectory, "sub"), "deep"), "e.yaml") :> {"file"}

TreePaths == DOMAIN TreeKinds

Trees ==
  {t \in [TreePaths -> {"absent", "file", "dir", "nostat", "nolist"}] :
     \A p \in TreePaths : t[p] \in TreeKinds[p]}

\* the orders in which the file system can enumerate the entries of each
\* directory
Enumerations(S) ==
  {f \in [1..Cardinality(S) -> S] : \A i, j \in DOMAIN f : f[i] = f[j] => i = j}

Orders ==
  {[d \in DOMAIN TreeChildren |->
      CASE d = promptsDirectory -> r
        [] d = Join(promptsDirectory, "sub") -> m
        [] OTHER -> <<"e.yaml">>] :
     r \in Enumerations(TreeChildren[promptsDirectory]),
     m \in Enumerations(TreeChildren[Join(promptsDirectory, "sub")])}

\* readdir(directory): the entries that are there, as the file system
\* enumerates them
readdir(tree, order, directory) ==
  IF directory \in DOMAIN order
  THEN SelectSeq(order[directory],
                 LAMBDA entry : tree[Join(directory, entry)] # "absent")
  ELSE <<>>

RECURSIVE scanTree(_, _, _)
RECURSIVE scanEntries(_, _, _, _)
RECURSIVE scanEntriesNoInnerCatch(_, _, _, _)

\* the loop over the entries without the try block around stat: an entry
\* stat fails on ends the loop, and the files found before it are returned
scanEntriesNoInnerCatch(tree, order, directory, entries) ==
  IF entries = <<>> THEN <<>>
  ELSE LET entry == Head(entries)
           fullPath == Join(directory, entry)
       IN IF tree[fullPath] = "nostat" THEN <<>>
          ELSE (IF tree[fullPath] \in {"dir", "nolist"}
                THEN scanTree(tree, order, fullPath)
                ELSE IF tree[fullPath] = "file"
                        /\ ToLowerCase(ExtName(entry)) \in {".yaml", ".yml"}
                THEN <<fullPath>>
                ELSE <<>>)
               \o scanEntriesNoInnerCatch(tree, order, directory,
                                          Tail(entries))

\* for (const entry of entries): stat, then recurse, push or skip
scanEntries(tree, order, directory, entries) ==
  IF entries = <<>> THEN <<>>
  ELSE LET entry == Head(entries)
           fullPath == Join(directory, entry)
       IN (IF tree[fullPath] = "nostat" THEN <<>>
           ELSE IF tree[fullPath] \in {"dir", "nolist"}
           THEN scanTree(tree, order, fullPath)
           ELSE IF tree[fullPath] = "file"
                   /\ ToLowerCase(ExtName(entry)) \in {".yaml", ".yml"}
           THEN <<fullPath>>
           ELSE <<>>)
          \o scanEntries(tree, order, directory, Tail(entries))

\* scanForPromptFiles(directory): nothing when readdir fails
scanTree(tree, order, directory) ==
  IF tree[directory] = "nolist" THEN <<>>
  ELSE scanEntries(tree, order, directory, readdir(tree, order, directory))

\* the catch block of loadPromptFile
CaughtError(errorMessage, filePath) ==
  IF Includes(errorMessage, "YAMLException")
     \/ Includes(errorMessage, "bad indentation")
  THEN Failure(<<[file |-> filePath, field |-> NoField,
                  message |-> "YAML parsing error: " \o errorMessage]>>)
  ELSE Failure(<<[file |-> filePath, field |-> NoField,
                  message |-> "File loading error: " \o errorMessage]>>)

\* loadPromptFile with its catch block left out: an error of readFile or
\* yaml.load leaves the function as an exception
loadPromptFileNoCatch(filePath, content) ==
  IF content.read # "" THEN Thrown(content.read)
  ELSE IF content.yaml # "" THEN Thrown(content.yaml)
  ELSE IF Falsy(content.data) \/ TypeOf(content.data) # "object"
  THEN Failure(<<[file |-> filePath, field |-> NoField,
                  message |-> "Invalid YAML: File does not contain a valid YAML object"]>>)
  ELSE validatePromptData(content.data, filePath)

loadPromptFile(filePath, content) ==
  IF content.read # "" THEN CaughtError(content.read, filePath)
  ELSE IF content.yaml # "" THEN CaughtError(content.yaml, filePath)
  ELSE IF Falsy(content.data) \/ TypeOf(content.data) # "object"
  THEN Failure(<<[file |-> filePath, field |-> NoField,
                  message |-> "Invalid YAML: File does not contain a valid YAML object"]>>)
  ELSE validatePromptData(content.data, filePath)

\* loadPromptFile of every path and content, computed once
LoadResult ==
  [p \in Paths, c \in Contents |-> loadPromptFile(p, FileContent[c])]

\* A ParsedPrompt is never changed once it is built, and the state holds
\* references to it: a reference names the file and the content it was parsed
\* from, and Deref gives the prompt.
Ref(filePath, content) == <<filePath, content>>
\* LoadResult as the loader finds it: it is worked out once, in the initial
\* state, and never changes
VARIABLE fileResults

Deref(ref) == fileResults[ref[1], ref[2]].prompt[1]

\* ------------------------------------------------------------------------
\* template-engine.ts: variable validation
\* ------------------------------------------------------------------------
\* String(n) of a number
NumText(n) ==
  CASE n.t = "nan" -> "NaN"
    [] n.t = "infinity" -> "Infinity"
    [] OTHER -> ToString(n.v)

\* values.join(sep) of an array of strings
RECURSIVE JoinStrings(_, _)
JoinStrings(values, sep) ==
  IF values = <<>> THEN ""
  ELSE IF Len(values) = 1 THEN values[1].v
  ELSE values[1].v \o sep \o JoinStrings(Tail(values), sep)

\* providedVariables[name]
Lookup(providedVariables, name) ==
  IF name \in DOMAIN providedVariables THEN providedVariables[name]
  ELSE Undef

VariableError(variable, message) ==
  <<[variable |-> variable.name, message |-> message]>>

\* every string taken as one of the values
ValuesIncludeAny(values, value) == TRUE

\* variable.values.includes(value)
ValuesInclude(values, value) == value \in Range(values.v)

\* validateVariableType: <<>> for null, or the one error
validateVariableType(variable, value) ==
  CASE variable.type = "text" ->
         IF TypeOf(value) # "string"
         THEN VariableError(variable,
                "Variable '" \o variable.name \o "' must be a string")
         ELSE IF ~Falsy(variable.max_length)
                 /\ NumLess(variable.max_length, Num(Len(value.v)))
         THEN VariableError(variable,
                "Variable '" \o variable.name
                \o "' exceeds maximum length of "
                \o NumText(variable.max_length))
         ELSE <<>>
    [] variable.type = "number" ->
         IF TypeOf(value) # "number" \/ IsNaN(value)
         THEN VariableError(variable,
                "Variable '" \o variable.name \o "' must be a number")
         ELSE IF variable.min.t # "undefined" /\ NumLess(value, variable.min)
         THEN VariableError(variable,
                "Variable '" \o variable.name \o "' must be at least "
                \o NumText(variable.min))
         ELSE IF variable.max.t # "undefined" /\ NumLess(variable.max, value)
         THEN VariableError(variable,
                "Variable '" \o variable.name \o "' must be at most "
                \o NumText(variable.max))
         ELSE <<>>
    [] variable.type = "boolean" ->
         IF TypeOf(value) # "boolean"
         THEN VariableError(variable,
                "Variable '" \o variable.name \o "' must be a boolean")
         ELSE <<>>
    [] variable.type = "enum" ->
         IF TypeOf(value) # "string"
         THEN VariableError(variable,
                "Variable '" \o variable.name
                \o "' must be a string for enum type")
         ELSE IF variable.values.t # "undefined"
                 /\ ~ValuesInclude(variable.values, value)
         THEN VariableError(variable,
                "Variable '" \o variable.name \o "' must be one of: "
                \o JoinStrings(variable.values.v, ", "))
         ELSE <<>>
    [] variable.type = "array" ->
         IF ~IsArray(value)
         THEN VariableError(variable,
                "Variable '" \o variable.name \o "' must be an array")
         ELSE <<>>
    [] OTHER -> <<>>

\* every falsy value taken as missing
IsMissingFalsy(value) == Falsy(value)

\* value === undefined || value === null || value === ''
IsMissing(value) ==
  value.t \in {"undefined", "null"} \/ (value.t = "string" /\ value.v = "")

\* the body of the loop of validateVariables for one declared variable: the
\* errors it pushes
CheckVariable(variable, value) ==
  IF variable.required /\ IsMissing(value)
  THEN VariableError(variable,
         "Required variable '" \o variable.name \o "' is missing")
  ELSE IF value.t \in {"undefined", "null"} THEN <<>>
  ELSE validateVariableType(variable, value)

\* the loop of validateVariables from the k-th declared variable on
RECURSIVE ValidateFrom(_, _, _, _)
ValidateFrom(promptVariables, providedVariables, k, errors) ==
  IF k > Len(promptVariables) THEN errors
  ELSE ValidateFrom(promptVariables, providedVariables, k + 1,
         errors \o CheckVariable(promptVariables[k],
                                 Lookup(providedVariables,
                                        promptVariables[k].name)))

\* the loop leaving at the first error it finds
RECURSIVE ValidateFailFast(_, _, _)
ValidateFailFast(promptVariables, providedVariables, k) ==
  IF k > Len(promptVariables) THEN <<>>
  ELSE LET e == CheckVariable(promptVariables[k],
                              Lookup(providedVariables,
                                     promptVariables[k].name))
       IN IF e # <<>> THEN e
          ELSE ValidateFailFast(promptVariables, providedVariables, k + 1)

validateVariablesFailFast(promptVariables, providedVariables) ==
  ValidateFailFast(promptVariables, providedVariables, 1)

\* validateVariables; the unknown variables are only logged
validateVariables(promptVariables, providedVariables) ==
  ValidateFrom(promptVariables, providedVariables, 1, <<>>)

\* ------------------------------------------------------------------------
\* The substitution engine, as far as the templates here use it: text,
\* {{name}}, and {{#if name}} ... {{/if}} without nesting
\* ------------------------------------------------------------------------
\* the first index >= from at which lit starts, 0 when there is none
IndexOf(s, lit, from) ==
  LET hits == {i \in from..Len(s) : LitAt(s, i, lit)}
  IN IF hits = {} THEN 0 ELSE CHOOSE i \in hits : \A j \in hits : i <= j

\* s.trim()
Trim(s) ==
  LET inked == {i \in 1..Len(s) : ChAt(s, i) \notin Space}
  IN IF inked = {} THEN ""
     ELSE SubSeq(s, CHOOSE i \in inked : \A j \in inked : i <= j,
                    CHOOSE i \in inked : \A j \in inked : j <= i)

IsIdentifier(s) ==
  /\ ChAt(s, 1) \in IdStart
  /\ SkipClass(s, 1, IdChar) = Len(s) + 1

\* the characters the engine escapes in an interpolated value (the double
\* quote and the backquote, escaped too, occur in no value here)
EscapeOf(ch) ==
  CASE ch = "&" -> "&amp;"
    [] ch = "<" -> "&lt;"
    [] ch = ">" -> "&gt;"
    [] ch = "'" -> "&#x27;"
    [] ch = "=" -> "&#x3D;"
    [] OTHER -> ch

RECURSIVE EscapeExpression(_)
EscapeExpression(s) ==
  IF s = "" THEN ""
  ELSE EscapeOf(ChAt(s, 1)) \o EscapeExpression(SubSeq(s, 2, Len(s)))

\* the text of a value: empty for null and undefined, String(value) otherwise
RECURSIVE ValueText(_)
ValueText(value) ==
  CASE value.t \in {"undefined", "null"} -> ""
    [] value.t = "string" -> value.v
    [] value.t \in {"number", "nan", "infinity"} -> NumText(value)
    [] value.t = "boolean" -> IF value.v THEN "true" ELSE "false"
    [] value.t = "array" ->
         IF value.v = <<>> THEN ""
         ELSE IF Len(value.v) = 1 THEN ValueText(value.v[1])
         ELSE ValueText(value.v[1]) \o ","
              \o ValueText(Arr(Tail(value.v)))
    [] OTHER -> "[object Object]"

\* ------------------------------------------------------------------------
\* template-engine.ts: the array helpers
\* ------------------------------------------------------------------------
\* array.join(separator): null and undefined elements give no text
RECURSIVE ArrayJoin(_, _)
ArrayJoin(values, separator) ==
  IF values = <<>> THEN ""
  ELSE IF Len(values) = 1 THEN ValueText(values[1])
  ELSE ValueText(values[1]) \o separator \o ArrayJoin(Tail(values), separator)

\* the helper join
join(array, separator) ==
  IF ~IsArray(array) THEN Str("")
  ELSE Str(ArrayJoin(array.v, separator))

\* the helper first
first(array) ==
  IF ~IsArray(array) \/ Len(array.v) = 0 THEN Str("")
  ELSE array.v[1]

\* the helper last without the test for an empty array: array[-1]
lastOfAny(array) ==
  IF ~IsArray(array) THEN Str("")
  ELSE IF Len(array.v) = 0 THEN Undef
  ELSE array.v[Len(array.v)]

\* the helper last
last(array) ==
  IF ~IsArray(array) \/ Len(array.v) = 0 THEN Str("")
  ELSE array.v[Len(array.v)]

\* the helper length
length(array) ==
  IF ~IsArray(array) THEN Num(0)
  ELSE Num(Len(array.v))

\* what {{#if}} takes for false: a falsy value or an empty array
IsEmpty(value) == Falsy(value) \/ (IsArray(value) /\ value.v = <<>>)

EngineError(message) == [threw |-> TRUE, message |-> message, out |-> ""]
EngineText(out) == [threw |-> FALSE, message |-> "", out |-> out]

\* Handlebars.compile(template)(variables) on the rest of the template from
\* index from on
RECURSIVE Evaluate(_, _, _)
Evaluate(s, from, variables) ==
  LET open == IndexOf(s, "{{", from)
      close == IndexOf(s, "}}", open + 2)
      inner == Trim(SubSeq(s, open + 2, close - 1))
      text == SubSeq(s, from, open - 1)
  IN IF open = 0 THEN EngineText(SubSeq(s, from, Len(s)))
     ELSE IF close = 0 THEN EngineError("Parse error: expecting 'CLOSE'")
     ELSE IF IsIdentifier(inner)
     THEN LET rest == Evaluate(s, close + 2, variables)
          IN IF rest.threw THEN rest
             ELSE EngineText(text
                    \o EscapeExpression(ValueText(Lookup(variables, inner)))
                    \o rest.out)
     ELSE IF LitAt(inner, 1, "#if") /\ IsIdentifier(Trim(SubSeq(inner, 4, Len(inner))))
     THEN LET end == IndexOf(s, "{{/if}}", close + 2)
              body == Evaluate(SubSeq(s, close + 2, end - 1), 1, variables)
              rest == Evaluate(s, end + 7, variables)
              cond == Lookup(variables, Trim(SubSeq(inner, 4, Len(inner))))
          IN IF end = 0 THEN EngineError("Parse error: expecting 'OPEN_ENDBLOCK'")
             ELSE IF body.threw THEN body
             ELSE IF rest.threw THEN rest
             ELSE EngineText(text \o (IF IsEmpty(cond) THEN "" ELSE body.out)
                             \o rest.out)
     ELSE EngineError("Parse error: unexpected token")

\* ------------------------------------------------------------------------
\* template-engine.ts: renderPrompt
\* ------------------------------------------------------------------------
\* the message of the engine as it is
BareMessage(errorMessage) == errorMessage

\* `Template rendering error: ${errorMessage}`
CaughtMessage(errorMessage) == "Template rendering error: " \o errorMessage

\* a failure that reports nothing
SilentFailure(messages) ==
  [success |-> FALSE, rendered |-> Undef, errors |-> <<>>]

\* { success: false, errors }
RenderFailure(messages) ==
  [success |-> FALSE, rendered |-> Undef, errors |-> messages]

\* { success: true, rendered, errors: [] }
RenderSuccess(rendered) ==
  [success |-> TRUE, rendered |-> Str(rendered), errors |-> <<>>]

\* validationErrors.map((e) => e.message)
Messages(validationErrors) ==
  [k \in 1..Len(validationErrors) |-> validationErrors[k].message]

\* the test that guards the early return, always passing
NeverInvalid(validationErrors) == FALSE

\* validationErrors.length > 0
IsInvalid(validationErrors) == Len(validationErrors) > 0

\* ------------------------------------------------------------------------
\* A Map in insertion order: a sequence of <<key, value>> pairs
\* ------------------------------------------------------------------------
MapHas(m, key) == \E k \in 1..Len(m) : m[k][1] = key

MapGet(m, key) == m[CHOOSE k \in 1..Len(m) : m[k][1] = key][2]

\* Map.set: a key already there keeps its place
MapSet(m, key, value) ==
  IF MapHas(m, key)
  THEN [k \in 1..Len(m) |-> IF m[k][1] = key THEN <<key, value>> ELSE m[k]]
  ELSE Append(m, <<key, value>>)

\* Array.from(m.values())
MapValues(m) == [k \in 1..Len(m) |-> m[k][2]]

\* ------------------------------------------------------------------------
\* prompt-loader.ts: the state
\* ------------------------------------------------------------------------
VARIABLES
  dir,            \* the prompts directory: path -> what the file holds
  promptCache,    \* Map name -> ParsedPrompt (a reference)
  filePathCache,  \* Map name -> filePath
  lastScanTime,   \* 0, or 1 for the time of a finished load
  loaderStats,    \* totalFiles, successfulLoads, failedLoads, errors
  call,           \* the loadPrompts calls: where each is, and its locals
  calls,          \* how many calls were made
  atStart,        \* per call: the cache, statistics and last result it found
  overlapped,     \* per call: another loadPrompts ran while it ran
  quiet,          \* the last call was a loadPrompts that ran alone and is done
  lastRet,        \* what the last finished loadPrompts returned
  render,         \* the renderPrompt call
  scan,           \* a scan of a directory tree, made twice
  helper,         \* a call of a registered helper
  manager,        \* the PromptResourceManager and the calls on it
  tool,           \* the prompt tool system and the callPromptTool call
  get             \* a getPrompt call

loaderVars == <<dir, promptCache, filePathCache, lastScanTime, loaderStats,
                call, calls, atStart, overlapped, quiet, lastRet,
                fileResults>>
vars == <<dir, promptCache, filePathCache, lastScanTime, loaderStats, call,
          calls, atStart, overlapped, quiet, lastRet, render, scan, helper,
          manager, tool, get, fileResults>>

restVars == <<scan, helper, manager, tool, get>>

\* nothing is being scanned and no helper, manager, tool or getPrompt is
\* called
InitRest ==
  /\ scan = [pc |-> "idle"]
  /\ helper = [pc |-> "idle"]
  /\ manager = [pc |-> "idle"]
  /\ tool = [pc |-> "idle"]
  /\ get = [pc |-> "idle"]

\* two loadPrompts calls can be in progress at once
Callers == {1, 2}

InProgress == {"scan", "read"}

ZeroStats ==
  [totalFiles |-> 0, successfulLoads |-> 0, failedLoads |-> 0,
   errors |-> <<>>]

IdleCall ==
  [pc |-> "idle", promptFiles |-> <<>>, idx |-> 0, prompts |-> <<>>,
   ret |-> <<>>, caught |-> FALSE]

NoLoadInProgress == \A c \in Callers : call[c].pc \notin InProgress

\* the statistics carried over from the last load instead of being reset
KeptStats == loaderStats

\* Reset stats
ResetStats == ZeroStats

\* loaderStats.successfulLoads++
CountSuccess(stats) == [stats EXCEPT !.successfulLoads = @ + 1]

\* one failed load counted per error instead of per file
CountFailurePerError(stats, errors) ==
  [stats EXCEPT !.failedLoads = @ + Len(errors), !.errors = @ \o errors]

\* loaderStats.failedLoads++; loaderStats.errors.push(...result.errors)
CountFailure(stats, errors) ==
  [stats EXCEPT !.failedLoads = @ + 1, !.errors = @ \o errors]

\* promptCache.set(result.prompt.metadata.name, result.prompt)
CacheSet(cache, prompt) == MapSet(cache, Deref(prompt).metadata.name, prompt)

\* the path and the content of each file of the directories D
FilesOf(D) == {<<p, d[p]>> : p \in Paths, d \in D}

\* LoadResult for these files
ResultsOf(files) == [f \in files |-> LoadResult[f[1], f[2]]]

\* the loader before its first load, over one of the directories D; files
\* are the files it can come to read
InitLoaderOver(D, files) ==
  /\ dir \in D
  /\ promptCache = <<>>
  /\ filePathCache = <<>>
  /\ lastScanTime = 0
  /\ loaderStats = ZeroStats
  /\ call = [c \in Callers |-> IdleCall]
  /\ calls = 0
  /\ atStart = [c \in Callers |->
                  [cache |-> <<>>, stats |-> ZeroStats, ret |-> <<>>,
                   consecutive |-> FALSE]]
  /\ overlapped = [c \in Callers |-> FALSE]
  /\ quiet = FALSE
  /\ lastRet = <<>>
  /\ fileResults = ResultsOf(files)
  /\ render = [pc |-> "idle"]

\* the directories the files of which hold what CanHold allows
LoaderDirs ==
  {d \in [Paths -> Contents] : \A p \in Paths : d[p] \in CanHold[p]}

Init == InitLoaderOver(LoaderDirs, FilesOf(LoaderDirs)) /\ InitRest

\* ------------------------------------------------------------------------
\* loadPrompts, one action per stretch between two awaits
\* ------------------------------------------------------------------------
\* loadPrompts is called: the statistics are reset, then the call waits for
\* scanForPromptFiles.  The second caller is used while the first is busy.
LoadPromptsEnter(c) ==
  /\ calls < MaxCalls
  /\ call[c].pc \notin InProgress
  /\ c = 1 \/ call[1].pc \in InProgress
  /\ loaderStats' = ResetStats
  /\ call' = [call EXCEPT ![c] = [IdleCall EXCEPT !.pc = "scan"]]
  /\ atStart' = [atStart EXCEPT ![c] =
                   [cache |-> promptCache, stats |-> loaderStats,
                    ret |-> lastRet, consecutive |-> quiet]]
  /\ overlapped' = [k \in Callers |->
                      IF k = c THEN ~NoLoadInProgress
                      ELSE overlapped[k] \/ call[k].pc \in InProgress]
  /\ quiet' = FALSE
  /\ calls' = calls + 1
  /\ UNCHANGED <<fileResults,
                 dir, promptCache, filePathCache, lastScanTime, lastRet,
                 render>>

\* a loadPrompts call made for itself
StartLoad(c) == LoadPromptsEnter(c) /\ UNCHANGED restVars

\* the end of loadPrompts after its loop: lastScanTime = Date.now(), and
\* return prompts
Returned(c, prompts) ==
  /\ lastScanTime' = 1
  /\ call' = [call EXCEPT ![c] = [@ EXCEPT !.pc = "returned",
                                            !.prompts = prompts,
                                            !.ret = prompts]]
  /\ quiet' = ~overlapped[c]
  /\ lastRet' = prompts

\* scanForPromptFiles has resolved: totalFiles is set and the loop begins,
\* up to the first await of loadPromptFile
LoadPromptsScanned(c) ==
  /\ call[c].pc = "scan"
  /\ LET promptFiles == scanForPromptFiles(dir)
     IN /\ loaderStats' = [loaderStats EXCEPT !.totalFiles = Len(promptFiles)]
        /\ IF Len(promptFiles) = 0
           THEN Returned(c, <<>>)
           ELSE /\ call' = [call EXCEPT ![c] =
                              [@ EXCEPT !.pc = "read",
                                        !.promptFiles = promptFiles,
                                        !.idx = 1]]
                /\ UNCHANGED <<lastScanTime, quiet, lastRet>>
  /\ UNCHANGED <<fileResults,
                 dir, promptCache, filePathCache, calls, atStart, overlapped,
                 render>>

FinishScan(c) == LoadPromptsScanned(c) /\ UNCHANGED restVars

\* the catch block of loadPrompts: return []
Caught(c) ==
  /\ call' = [call EXCEPT ![c] = [@ EXCEPT !.pc = "returned", !.ret = <<>>,
                                            !.caught = TRUE]]
  /\ quiet' = ~overlapped[c]
  /\ lastRet' = <<>>
  /\ UNCHANGED <<promptCache, filePathCache, loaderStats, lastScanTime>>

\* loadPromptFile(filePath) has resolved: the body of the loop for this file,
\* then either the next loadPromptFile is awaited or loadPrompts returns
LoadPromptsFile(c) ==
  /\ call[c].pc = "read"
  /\ LET filePath == call[c].promptFiles[call[c].idx]
         result == fileResults[filePath, dir[filePath]]
         isLast == call[c].idx = Len(call[c].promptFiles)
         prompt == Ref(filePath, dir[filePath])
         prompts == IF result.success /\ result.prompt # <<>>
                    THEN Append(call[c].prompts, prompt)
                    ELSE call[c].prompts
     IN IF result.threw THEN Caught(c)
        ELSE
          /\ IF result.success /\ result.prompt # <<>>
             THEN /\ promptCache' = CacheSet(promptCache, prompt)
                  /\ filePathCache' = MapSet(filePathCache,
                                             Deref(prompt).metadata.name,
                                             filePath)
                  /\ loaderStats' = CountSuccess(loaderStats)
             ELSE /\ loaderStats' = CountFailure(loaderStats, result.errors)
                  /\ UNCHANGED <<promptCache, filePathCache>>
          /\ IF isLast
             THEN Returned(c, prompts)
             ELSE /\ call' = [call EXCEPT ![c] =
                                [@ EXCEPT !.idx = @ + 1,
                                          !.prompts = prompts]]
                  /\ UNCHANGED <<lastScanTime, quiet, lastRet>>
  /\ UNCHANGED <<fileResults, dir, calls, atStart, overlapped, render>>

LoadFile(c) == LoadPromptsFile(c) /\ UNCHANGED restVars

\* clearCache that also resets the statistics
ClearCacheAndStats ==
  /\ calls < MaxCalls
  /\ NoLoadInProgress
  /\ promptCache' = <<>>
  /\ filePathCache' = <<>>
  /\ lastScanTime' = 0
  /\ loaderStats' = ZeroStats
  /\ quiet' = FALSE
  /\ calls' = calls + 1
  /\ UNCHANGED <<fileResults,
                 dir, call, atStart, overlapped, lastRet, render, restVars>>

\* clearCache; its caller (the loader's test script) calls it while no load
\* is in progress
ClearCache ==
  /\ calls < MaxCalls
  /\ NoLoadInProgress
  /\ promptCache' = <<>>
  /\ filePathCache' = <<>>
  /\ lastScanTime' = 0
  /\ quiet' = FALSE
  /\ calls' = calls + 1
  /\ UNCHANGED <<fileResults,
                 dir, loaderStats, call, atStart, overlapped, lastRet,
                 render, restVars>>

\* the environment: a file of the directory is written, removed, created or
\* made unreadable between two loads
EditFile(path, content) ==
  /\ calls < MaxCalls
  /\ NoLoadInProgress
  /\ content \in CanHold[path]
  /\ dir[path] # content
  /\ dir' = [dir EXCEPT ![path] = content]
  /\ quiet' = FALSE
  /\ calls' = calls + 1
  /\ UNCHANGED <<fileResults,
                 promptCache, filePathCache, lastScanTime, loaderStats, call,
                 atStart, overlapped, lastRet, render, restVars>>

\* ------------------------------------------------------------------------
\* prompt-loader.ts: the readers
\* ------------------------------------------------------------------------
getLoadedPrompts == MapValues(promptCache)

\* getPrompt(name) for a name that is cached: no load is made
getCachedPrompt(name) == MapGet(promptCache, name)

getPromptsByCategory(category) ==
  LET Test(prompt) == Deref(prompt).metadata.category = Str(category)
  IN SelectSeq(MapValues(promptCache), Test)

\* the search without the tags
searchPromptsNoTags(query) ==
  LET lowerQuery == ToLowerCase(query)
      Test(prompt) ==
        LET metadata == Deref(prompt).metadata
        IN \/ Includes(ToLowerCase(metadata.name), lowerQuery)
           \/ Includes(ToLowerCase(metadata.title), lowerQuery)
           \/ Includes(ToLowerCase(metadata.description), lowerQuery)
  IN SelectSeq(MapValues(promptCache), Test)

searchPrompts(query) ==
  LET lowerQuery == ToLowerCase(query)
      Test(prompt) ==
        LET metadata == Deref(prompt).metadata
        IN \/ Includes(ToLowerCase(metadata.name), lowerQuery)
           \/ Includes(ToLowerCase(metadata.title), lowerQuery)
           \/ Includes(ToLowerCase(metadata.description), lowerQuery)
           \/ \E k \in 1..Len(metadata.tags) :
                Includes(ToLowerCase(metadata.tags[k]), lowerQuery)
  IN SelectSeq(MapValues(promptCache), Test)

\* the characters of names and categories in the order of their code units
CodeUnits ==
  <<"-", "0", "1", "2", "3", "4", "5", "6", "7", "8", "9",
    "A", "B", "C", "D", "E", "F", "G", "H", "I", "J", "K", "L", "M",
    "N", "O", "P", "Q", "R", "S", "T", "U", "V", "W", "X", "Y", "Z", "_",
    "a", "b", "c", "d", "e", "f", "g", "h", "i", "j", "k", "l", "m",
    "n", "o", "p", "q", "r", "s", "t", "u", "v", "w", "x", "y", "z">>

CodeOf(ch) == CHOOSE k \in 1..Len(CodeUnits) : CodeUnits[k] = ch

\* a < b as Array.prototype.sort compares two strings
RECURSIVE StringLess(_, _)
StringLess(a, b) ==
  IF b = "" THEN FALSE
  ELSE IF a = "" THEN TRUE
  ELSE IF ChAt(a, 1) # ChAt(b, 1)
  THEN CodeOf(ChAt(a, 1)) < CodeOf(ChAt(b, 1))
  ELSE StringLess(SubSeq(a, 2, Len(a)), SubSeq(b, 2, Len(b)))

\* Array.from(set).sort()
RECURSIVE SortStrings(_)
SortStrings(S) ==
  IF S = {} THEN <<>>
  ELSE LET m == CHOOSE a \in S : \A b \in S \ {a} : StringLess(a, b)
       IN <<m>> \o SortStrings(S \ {m})

getAllCategories ==
  SortStrings({Deref(promptCache[k][2]).metadata.category.v :
                 k \in {i \in 1..Len(promptCache) :
                          ~Falsy(Deref(promptCache[i][2]).metadata.category)}})

getLoaderStats == loaderStats

\* ------------------------------------------------------------------------
\* renderPrompt: the validation, then the early return or the substitution
\* ------------------------------------------------------------------------
\* the prompts rendered: the accepted definitions of the contents above
RenderPrompts ==
  {Ref(Join(promptsDirectory, "a.yaml"), c) :
     c \in {"review", "greeting", "greeting2", "report", "broken",
            "limits"}}

\* the values a caller supplies for a variable; undefined stands for a key
\* that is not supplied
RenderValues ==
  {Undef, Null, Str(""), Str("Go"), Str("Python"), Str("a<b"), Num(0),
   Num(2), Num(5), NaN, Infinity, Bool(TRUE), Bool(FALSE), Arr(<<>>),
   Arr(<<Str("a"), Str("b")>>)}

\* the keys supplied: the declared variables and one undeclared key
RenderKeys(prompt) ==
  DeclaredVariables(Deref(prompt).metadata.variables) \cup {"extra"}

RenderInputs(prompt) ==
  {v \in [RenderKeys(prompt) -> RenderValues] :
     v["extra"] \in {Undef, Str("Go")}}

\* renderPrompt is entered and validateVariables has returned
RenderCall(prompt, variables) ==
  /\ render.pc = "idle"
  /\ render' = [pc |-> "validated",
                prompt |-> prompt,
                variables |-> variables,
                validationErrors |->
                  validateVariables(Deref(prompt).metadata.variables,
                                    variables),
                compiled |-> FALSE,
                result |-> RenderFailure(<<>>)]
  /\ UNCHANGED <<loaderVars, restVars>>

\* validationErrors.length > 0: the early return
RenderReject ==
  /\ render.pc = "validated"
  /\ IsInvalid(render.validationErrors)
  /\ render' = [render EXCEPT
                  !.pc = "done",
                  !.result = RenderFailure(Messages(render.validationErrors))]
  /\ UNCHANGED <<loaderVars, restVars>>

\* Compile and render the template; an exception of the engine is caught
RenderSubstitute ==
  /\ render.pc = "validated"
  /\ ~IsInvalid(render.validationErrors)
  /\ LET rendered == Evaluate(Deref(render.prompt).template, 1,
                              render.variables)
     IN render' = [render EXCEPT
                     !.pc = "done",
                     !.compiled = TRUE,
                     !.result =
                       IF rendered.threw
                       THEN RenderFailure(<<CaughtMessage(rendered.message)>>)
                       ELSE RenderSuccess(rendered.out)]
  /\ UNCHANGED <<loaderVars, restVars>>

Next ==
  \/ \E c \in Callers : StartLoad(c)
  \/ \E c \in Callers : FinishScan(c)
  \/ \E c \in Callers : LoadFile(c)
  \/ ClearCache
  \/ \E path \in Paths, content \in Contents : EditFile(path, content)

Spec == Init /\ [][Next]_vars

\* the loader over one file that holds any definition of the catalog, next
\* to a second file that is there or not; the files do not change
CatalogContents ==
  {"review", "greeting", "unused", "notitle", "report", "broken", "limits",
   "twice", "triple", "noenum", "badexample", "ghosts", "tangled", "mixed",
   "upper", "helpers", "tagged"}

CatalogDirs ==
  {d \in [Paths -> Contents] :
     /\ d[Join(promptsDirectory, "a.yaml")] \in CatalogContents
     /\ d[Join(promptsDirectory, "b.yml")] \in {"absent", "review"}
     /\ d[Join(promptsDirectory, "c.YAML")] = "absent"}

InitCatalog == InitLoaderOver(CatalogDirs, FilesOf(CatalogDirs)) /\ InitRest

NextCatalog ==
  \/ \E c \in Callers : StartLoad(c)
  \/ \E c \in Callers : FinishScan(c)
  \/ \E c \in Callers : LoadFile(c)
  \/ ClearCache

SpecCatalog == InitCatalog /\ [][NextCatalog]_vars

\* ------------------------------------------------------------------------
\* renderPrompt as one call
\* ------------------------------------------------------------------------
renderPrompt(prompt, variables) ==
  LET validationErrors ==
        validateVariables(Deref(prompt).metadata.variables, variables)
      rendered == Evaluate(Deref(prompt).template, 1, variables)
  IN IF IsInvalid(validationErrors)
     THEN RenderFailure(Messages(validationErrors))
     ELSE IF rendered.threw
     THEN RenderFailure(<<CaughtMessage(rendered.message)>>)
     ELSE RenderSuccess(rendered.out)

\* prompt.metadata.variables filtered by required, mapped to the names
getVariableInfo(prompt) ==
  LET variables == Deref(prompt).metadata.variables
      NamesOf(seq) == [k \in 1..Len(seq) |-> seq[k].name]
  IN [required |-> NamesOf(SelectSeq(variables, LAMBDA v : v.required)),
      optional |-> NamesOf(SelectSeq(variables, LAMBDA v : ~v.required))]

\* ------------------------------------------------------------------------
\* resource-handlers.ts and tool-handlers.ts: the prompt URIs
\* ------------------------------------------------------------------------
\* `prompt://prompt/${category || 'uncategorized'}/${name}`
PromptUri(prompt) ==
  LET metadata == Deref(prompt).metadata
  IN "prompt://prompt/"
     \o (IF Falsy(metadata.category) THEN "uncategorized"
         ELSE metadata.category.v)
     \o "/" \o metadata.name

\* s.split(sep)
RECURSIVE Split(_, _)
Split(s, sep) ==
  LET i == IndexOf(s, sep, 1)
  IN IF i = 0 THEN <<s>>
     ELSE <<SubSeq(s, 1, i - 1)>>
          \o Split(SubSeq(s, i + Len(sep), Len(s)), sep)

\* segments[k] of the code, undefined past the end
Segment(segments, k) == IF k < Len(segments) THEN segments[k + 1] ELSE ""

\* prompts.find((p) => p.metadata.name === name): <<>> for undefined
FindByName(prompts, name) ==
  LET found == SelectSeq(prompts, LAMBDA p : Deref(p).metadata.name = name)
  IN IF found = <<>> THEN <<>> ELSE <<found[1]>>

\* findPromptByUri: the match of /^prompt:\/\/prompt\/([^/]+)\/(.+)$/, then
\* the prompt of that category with that name; <<>> for null.  A uri that
\* is no string makes uri.match throw, which is caught.
findPromptByUri(uri) ==
  IF uri.t # "string" THEN <<>>
  ELSE LET prefix == "prompt://prompt/"
           rest == SubSeq(uri.v, Len(prefix) + 1, Len(uri.v))
           slash == IndexOf(rest, "/", 1)
           category == SubSeq(rest, 1, slash - 1)
           name == SubSeq(rest, slash + 1, Len(rest))
       IN IF ~LitAt(uri.v, 1, prefix) \/ slash <= 1 \/ slash = Len(rest)
          THEN <<>>
          ELSE FindByName(getPromptsByCategory(category), name)

\* decodeURIComponent(s) for the escape %20; a % that starts no escape makes
\* it throw URIError.  The other escapes are not among the uris read.
RECURSIVE decodeURIComponent(_)
decodeURIComponent(s) ==
  IF s = "" THEN [threw |-> FALSE, out |-> ""]
  ELSE IF LitAt(s, 1, "%20")
  THEN LET rest == decodeURIComponent(SubSeq(s, 4, Len(s)))
       IN [rest EXCEPT !.out = " " \o @]
  ELSE IF LitAt(s, 1, "%")
  THEN [threw |-> TRUE, out |-> ""]
  ELSE LET rest == decodeURIComponent(SubSeq(s, 2, Len(s)))
       IN [rest EXCEPT !.out = SubSeq(s, 1, 1) \o @]

\* parsePromptUri: the kind of resource a uri names, or the error thrown
parsePromptUri(uri) ==
  LET path == IF LitAt(uri, 1, "prompt://")
              THEN SubSeq(uri, 10, Len(uri)) ELSE uri
      segments == Split(path, "/")
  IN IF path = "categories" THEN [type |-> "categories"]
     ELSE IF Segment(segments, 0) = "category" /\ Segment(segments, 1) # ""
     THEN [type |-> "category", category |-> Segment(segments, 1)]
     ELSE IF Segment(segments, 0) = "search" /\ Segment(segments, 1) # ""
     THEN IF decodeURIComponent(Segment(segments, 1)).threw
          THEN [type |-> "thrown", message |-> "URI malformed"]
          ELSE [type |-> "search",
                query |-> decodeURIComponent(Segment(segments, 1)).out]
     ELSE IF Segment(segments, 0) = "prompt" /\ Segment(segments, 1) # ""
             /\ Segment(segments, 2) # ""
     THEN [type |-> "prompt", category |-> Segment(segments, 1),
           name |-> Segment(segments, 2)]
     ELSE [type |-> "thrown",
           message |-> "Invalid prompt URI format: " \o uri]

ResourceThrown(message) ==
  [threw |-> TRUE, message |-> message, uri |-> "", prompts |-> <<>>,
   uris |-> <<>>]

\* the contents returned, as the definitions and URIs they are made from
ResourceContents(uri, prompts, uris) ==
  [threw |-> FALSE, message |-> "", uri |-> uri, prompts |-> prompts,
   uris |-> uris]

\* the URI of each prompt of a list
UrisOf(prompts) == [k \in 1..Len(prompts) |-> PromptUri(prompts[k])]

\* readResource after initialize: parsePromptUri, then the resource
readResource(uri) ==
  LET parsed == parsePromptUri(uri)
  IN CASE parsed.type = "thrown" -> ResourceThrown(parsed.message)
       [] parsed.type = "categories" ->
            ResourceContents(uri,
              Flatten([k \in 1..Len(getAllCategories) |->
                         getPromptsByCategory(getAllCategories[k])]), <<>>)
       [] parsed.type = "category" ->
            LET prompts == getPromptsByCategory(parsed.category)
            IN IF Len(prompts) = 0
               THEN ResourceThrown("Category not found: " \o parsed.category)
               ELSE ResourceContents(uri, prompts,
                      [k \in 1..Len(prompts) |->
                         "prompt://prompt/" \o parsed.category \o "/"
                         \o Deref(prompts[k]).metadata.name])
       [] parsed.type = "search" ->
            LET results == searchPrompts(parsed.query)
            IN ResourceContents(uri, results, UrisOf(results))
       [] parsed.type = "prompt" ->
            LET prompt == FindByName(getPromptsByCategory(parsed.category),
                                     parsed.name)
            IN IF prompt = <<>>
               THEN ResourceThrown("Prompt not found: " \o parsed.category
                                   \o "/" \o parsed.name)
               ELSE ResourceContents(uri, prompt, <<>>)

\* listResources after initialize: the URIs of the resources
listResources ==
  <<"prompt://categories">>
  \o [k \in 1..Len(getAllCategories) |->
        "prompt://category/" \o getAllCategories[k]]
  \o UrisOf(getLoadedPrompts)

\* ------------------------------------------------------------------------
\* tool-handlers.ts
\* ------------------------------------------------------------------------
\* an exception that leaves callPromptTool
ToolThrown(message) ==
  [threw |-> TRUE, message |-> message, isError |-> FALSE, text |-> "",
   prompts |-> <<>>, uris |-> <<>>, rendered |-> Undef]

\* a result with isError: true
ToolError(text) ==
  [threw |-> FALSE, message |-> "", isError |-> TRUE, text |-> text,
   prompts |-> <<>>, uris |-> <<>>, rendered |-> Undef]

\* a result without isError: the prompts it is about, their URIs, and the
\* rendered text of execute-prompt
ToolResult(prompts, uris, rendered) ==
  [threw |-> FALSE, message |-> "", isError |-> FALSE, text |-> "",
   prompts |-> prompts, uris |-> uris, rendered |-> rendered]

\* a handler without its try block
ToolRethrown(message) == ToolThrown(message)

\* the catch block of a handler
ToolCaught(message) == ToolError("Error: " \o message)

\* `${value}`
TemplateText(value) ==
  CASE value.t = "undefined" -> "undefined"
    [] value.t = "null" -> "null"
    [] OTHER -> ValueText(value)

\* errors.join('; ')
RECURSIVE JoinTexts(_, _)
JoinTexts(texts, sep) ==
  IF texts = <<>> THEN ""
  ELSE IF Len(texts) = 1 THEN texts[1]
  ELSE texts[1] \o sep \o JoinTexts(Tail(texts), sep)

\* executePromptTool: args is undefined, null or an object with promptUri
\* and variables
executePromptTool(args) ==
  IF args.t \in {"undefined", "null"}
  THEN ToolCaught("Cannot destructure property 'promptUri'")
  ELSE LET promptUri == args.v.promptUri
           variables == IF args.v.variables.t = "undefined" THEN Obj(<<>>)
                        ELSE args.v.variables
           prompt == findPromptByUri(promptUri)
           renderResult == renderPrompt(prompt[1], variables.v)
       IN IF variables.t = "null"
          THEN ToolCaught("Cannot convert undefined or null to object")
          ELSE IF prompt = <<>>
          THEN ToolError("Error: Prompt not found for URI: "
                         \o TemplateText(promptUri))
          ELSE IF ~renderResult.success
          THEN ToolError("Error rendering prompt: "
                         \o JoinTexts(renderResult.errors, "; "))
          ELSE ToolResult(prompt, <<>>, renderResult.rendered)

\* searchPromptsTool: args is undefined or an object with query, category
\* and tags
searchPromptsTool(args) ==
  IF args.t \in {"undefined", "null"}
  THEN ToolCaught("Cannot destructure property 'query'")
  ELSE LET query == args.v.query
           category == args.v.category
           tags == args.v.tags
           found == IF Falsy(query) THEN getLoadedPrompts
                    ELSE searchPrompts(query.v)
           inCategory ==
             IF Falsy(category) THEN found
             ELSE SelectSeq(found,
                    LAMBDA p : Deref(p).metadata.category = category)
           results ==
             IF Falsy(tags) \/ Len(tags.v) = 0 THEN inCategory
             ELSE SelectSeq(inCategory,
                    LAMBDA p : \E k \in 1..Len(tags.v) :
                      tags.v[k].v \in Range(Deref(p).metadata.tags))
       IN ToolResult(results, UrisOf(results), Undef)

\* callPromptTool after initializePromptSystem: the switch
callPromptTool(name, args) ==
  CASE name = "execute-prompt" -> executePromptTool(args)
    [] name = "search-prompts" -> searchPromptsTool(args)
    [] OTHER -> ToolThrown("Unknown tool: " \o name)

\* ------------------------------------------------------------------------
\* getPrompt: the cached definition, or one loadPrompts and then the cache
\* ------------------------------------------------------------------------
\* getPrompt that never finds the name in the cache
getPromptNeverHit(name) == FALSE

\* promptCache.has(name)
getPromptHit(name) == MapHas(promptCache, name)

\* the names asked for: declared by accepted files and by a rejected file
GetNames == {"code-review", "greeting", "unused-ref"}

\* getPrompt(name) up to its return or to the await of loadPrompts.  The
\* call keeps what it found when it was made.
GetPromptCall(name) ==
  /\ get.pc # "loading"
  /\ NoLoadInProgress
  /\ IF getPromptHit(name)
     THEN /\ get' = [pc |-> "done", name |-> name, loads |-> 0,
                     cache |-> promptCache, dir |-> dir,
                     stats |-> loaderStats, statsAfter |-> loaderStats,
                     out |-> getCachedPrompt(name)]
          /\ UNCHANGED <<loaderVars, render>>
     ELSE /\ LoadPromptsEnter(1)
          /\ get' = [pc |-> "loading", name |-> name, loads |-> 1,
                     cache |-> promptCache, dir |-> dir,
                     stats |-> loaderStats, statsAfter |-> loaderStats,
                     out |-> Undef]
  /\ UNCHANGED <<scan, helper, manager, tool>>

\* promptCache.get(name) || null, when loadPrompts has resolved
GetPromptReturn ==
  IF get.pc = "loading" /\ call[1].pc' = "returned"
  THEN get' = [get EXCEPT
                 !.pc = "done",
                 !.statsAfter = loaderStats',
                 !.out = IF MapHas(promptCache', get.name)
                         THEN MapGet(promptCache', get.name)
                         ELSE Null]
  ELSE UNCHANGED get

\* a step of the loadPrompts that getPrompt awaits; its last step resumes
\* getPrompt
GetPromptLoad ==
  /\ LoadPromptsScanned(1) \/ LoadPromptsFile(1)
  /\ GetPromptReturn
  /\ UNCHANGED <<scan, helper, manager, tool>>

NextGet ==
  \/ \E name \in GetNames : GetPromptCall(name)
  \/ GetPromptLoad
  \/ ClearCache
  \/ \E path \in Paths : \E content \in Contents : EditFile(path, content)

SpecGet == Init /\ [][NextGet]_vars

\* ------------------------------------------------------------------------
\* The tools: callPromptTool over a directory that is loaded by the first
\* call
\* ------------------------------------------------------------------------
\* the directories of a server: a.yaml holds a definition with a category,
\* one without, or a rejected one; b.yml holds nothing or a definition
ServerDirs ==
  {d \in [Paths -> Contents] :
     /\ d[Join(promptsDirectory, "a.yaml")]
          \in {"review", "greeting", "greeting2", "tagged", "unused"}
     /\ d[Join(promptsDirectory, "b.yml")] \in {"absent", "review", "report"}
     /\ d[Join(promptsDirectory, "c.YAML")] = "absent"}

\* the arguments of execute-prompt
ExecuteArgs ==
  {Undef,
   Obj([promptUri |-> Undef, variables |-> Undef]),
   Obj([promptUri |-> Str("code-review"), variables |-> Obj(<<>>)]),
   Obj([promptUri |-> Str("prompt://prompt/development"),
        variables |-> Obj(<<>>)]),
   Obj([promptUri |-> Str("prompt://prompt/invalid/prompt"),
        variables |-> Obj(<<>>)]),
   Obj([promptUri |-> Str("prompt://prompt/development/code-review"),
        variables |-> Obj([lang |-> Str("Go")])]),
   Obj([promptUri |-> Str("prompt://prompt/development/code-review"),
        variables |-> Obj([lang |-> Str("Perl")])]),
   Obj([promptUri |-> Str("prompt://prompt/development/code-review"),
        variables |-> Obj(<<>>)]),
   Obj([promptUri |-> Str("prompt://prompt/development/code-review"),
        variables |-> Undef]),
   Obj([promptUri |-> Str("prompt://prompt/development/code-review"),
        variables |-> Null]),
   Obj([promptUri |-> Str("prompt://prompt/social/greeting"),
        variables |-> Obj([title |-> Str("you")])]),
   Obj([promptUri |-> Str("prompt://prompt/uncategorized/greeting"),
        variables |-> Obj([title |-> Str("you")])]),
   Obj([promptUri |-> Str("prompt://prompt/uncategorized/summary"),
        variables |-> Undef])}

\* the arguments of search-prompts
SearchArgs ==
  {Undef,
   Obj([query |-> Str(""), category |-> Undef, tags |-> Undef]),
   Obj([query |-> Str("e"), category |-> Undef, tags |-> Undef]),
   Obj([query |-> Str("e"), category |-> Str("development"),
        tags |-> Undef]),
   Obj([query |-> Str(""), category |-> Undef,
        tags |-> Arr(<<Str("Docs"), Str("review")>>)])}

ToolNames == {"execute-prompt", "search-prompts", "invalid-tool", ""}

ToolArgs(name) ==
  CASE name = "execute-prompt" -> ExecuteArgs
    [] name = "search-prompts" -> SearchArgs
    [] OTHER -> {Undef, Obj(<<>>)}

InitTool ==
  /\ InitLoaderOver(ServerDirs, FilesOf(ServerDirs))
  /\ scan = [pc |-> "idle"]
  /\ helper = [pc |-> "idle"]
  /\ manager = [pc |-> "idle"]
  /\ tool = [pc |-> "idle", initialized |-> FALSE]
  /\ get = [pc |-> "idle"]

\* callPromptTool(name, args): initializePromptSystem returns at once when
\* the system is initialized and awaits the load of a new resource manager
\* when not
CallPromptTool(name, args) ==
  /\ tool.pc # "initializing"
  /\ IF tool.initialized
     THEN /\ tool' = [pc |-> "done", initialized |-> TRUE, name |-> name,
                      args |-> args, cache |-> promptCache,
                      out |-> callPromptTool(name, args)]
          /\ UNCHANGED <<loaderVars, render>>
     ELSE /\ LoadPromptsEnter(1)
          /\ tool' = [pc |-> "initializing", initialized |-> FALSE,
                      name |-> name, args |-> args, cache |-> <<>>,
                      out |-> ToolThrown("")]
  /\ UNCHANGED <<scan, helper, manager, get>>

\* a step of the load initializePromptSystem awaits
ToolLoad ==
  /\ tool.pc = "initializing"
  /\ LoadPromptsScanned(1) \/ LoadPromptsFile(1)
  /\ UNCHANGED restVars

\* the load has resolved: initialized = true, and the switch of
\* callPromptTool runs on the cache as the load left it, before anything
\* else runs
ToolResume ==
  /\ tool.pc = "initializing"
  /\ call[1].pc = "returned"
  /\ tool' = [tool EXCEPT !.pc = "done", !.initialized = TRUE,
                          !.cache = promptCache,
                          !.out = callPromptTool(tool.name, tool.args)]
  /\ UNCHANGED <<loaderVars, render, scan, helper, manager, get>>

\* clearCache between two calls of a tool
ToolClearCache == tool.pc # "initializing" /\ ClearCache

NextTool ==
  \/ \E name \in ToolNames : \E args \in ToolArgs(name) :
       CallPromptTool(name, args)
  \/ ToolLoad
  \/ ToolResume
  \/ ToolClearCache

SpecTool == InitTool /\ [][NextTool]_vars

\* ------------------------------------------------------------------------
\* One PromptResourceManager and the calls on it
\* ------------------------------------------------------------------------
\* the calls: what is called, and the uri of readResource
ManagerOps ==
  {[method |-> "listResources", uri |-> ""],
   [method |-> "listResourceTemplates", uri |-> ""],
   [method |-> "readResource", uri |-> "prompt://categories"],
   [method |-> "readResource",
    uri |-> "prompt://prompt/development/code-review"],
   [method |-> "readResource", uri |-> "prompt://search/code%20review"],
   [method |-> "readResource", uri |-> "prompt://search/100%"],
   [method |-> "readResource", uri |-> "prompt://invalid/path"]}

\* what a call returns after its await of initialize
ManagerBody(op) ==
  CASE op.method = "listResources" ->
         ResourceContents("", <<>>, listResources)
    [] op.method = "listResourceTemplates" ->
         ResourceContents("", <<>>,
           <<"prompt://categories", "prompt://category/{category}",
             "prompt://search/{query}",
             "prompt://prompt/{category}/{name}">>)
    [] op.method = "readResource" -> readResource(op.uri)

InitManager ==
  /\ InitLoaderOver(ServerDirs, FilesOf(ServerDirs))
  /\ scan = [pc |-> "idle"]
  /\ helper = [pc |-> "idle"]
  /\ manager = [initialized |-> FALSE, loads |-> 0,
                pc |-> [c \in Callers |-> "idle"],
                op |-> [c \in Callers |-> [method |-> "", uri |-> ""]],
                out |-> [c \in Callers |-> ResourceThrown("")]]
  /\ tool = [pc |-> "idle"]
  /\ get = [pc |-> "idle"]

\* a call of the manager up to its return, or up to the await of loadPrompts
\* in initialize when this.initialized is false.  The second caller is used
\* while the first awaits.
ManagerCall(c, op) ==
  /\ manager.pc[c] # "initializing"
  /\ c = 1 \/ manager.pc[1] = "initializing"
  /\ IF manager.initialized
     THEN /\ manager' = [manager EXCEPT !.pc[c] = "done", !.op[c] = op,
                                        !.out[c] = ManagerBody(op)]
          /\ UNCHANGED <<loaderVars, render>>
     ELSE /\ LoadPromptsEnter(c)
          /\ manager' = [manager EXCEPT !.pc[c] = "initializing",
                                        !.op[c] = op,
                                        !.loads = @ + 1]
  /\ UNCHANGED <<scan, helper, tool, get>>

\* a step of a load that initialize awaits
ManagerLoad(c) ==
  /\ manager.pc[c] = "initializing"
  /\ LoadPromptsScanned(c) \/ LoadPromptsFile(c)
  /\ UNCHANGED restVars

\* the load has resolved: this.initialized = true, and the call goes on
ManagerResume(c) ==
  /\ manager.pc[c] = "initializing"
  /\ call[c].pc = "returned"
  /\ manager' = [manager EXCEPT !.initialized = TRUE, !.pc[c] = "done",
                                !.out[c] = ManagerBody(manager.op[c])]
  /\ UNCHANGED <<loaderVars, render, scan, helper, tool, get>>

NextManager ==
  \/ \E c \in Callers : \E op \in ManagerOps : ManagerCall(c, op)
  \/ \E c \in Callers : ManagerLoad(c)
  \/ \E c \in Callers : ManagerResume(c)

SpecManager == InitManager /\ [][NextManager]_vars

\* the scanner alone: a directory tree is scanned twice, and the file system
\* enumerates the entries in an order of its own each time
EmptyDirs == {[p \in Paths |-> "absent"]}

InitIdleLoader == InitLoaderOver(EmptyDirs, FilesOf(EmptyDirs))

InitScan ==
  /\ InitIdleLoader
  /\ scan \in {[pc |-> "ready", tree |-> t, results |-> <<>>] : t \in Trees}
  /\ helper = [pc |-> "idle"]
  /\ manager = [pc |-> "idle"]
  /\ tool = [pc |-> "idle"]
  /\ get = [pc |-> "idle"]

ScanDirectory(order) ==
  /\ scan.pc = "ready"
  /\ Len(scan.results) < 2
  /\ scan' = [scan EXCEPT
                !.results = Append(@, scanTree(scan.tree, order,
                                               promptsDirectory))]
  /\ UNCHANGED <<loaderVars, render, helper, manager, tool, get>>

NextScan == \E order \in Orders : ScanDirectory(order)

SpecScan == InitScan /\ [][NextScan]_vars

\* the renderer alone, over a directory that holds nothing
\* ------------------------------------------------------------------------
\* The array helpers alone, called on one value with one separator
\* ------------------------------------------------------------------------
\* what an array handed to a helper can hold
HelperElements == {Str("a"), Str("b"), Str(""), Num(1), Null}

\* arrays of up to three elements, and values that are no array
HelperArrays ==
  {Arr(<<>>)}
  \cup {Arr(<<x>>) : x \in HelperElements}
  \cup {Arr(<<x, y>>) : x, y \in HelperElements}
  \cup {Arr(<<x, y, z>>) : x, y, z \in HelperElements}

HelperNonArrays ==
  {Undef, Null, Str(""), Str("ab"), Num(0), Num(2), NaN, Bool(TRUE),
   Obj([length |-> Num(2)])}

HelperSeparators == {" | ", ", ", ""}

RegisteredArrayHelpers == {"join", "first", "last", "length"}

InitHelper ==
  /\ InitIdleLoader
  /\ scan = [pc |-> "idle"]
  /\ helper \in {[pc |-> "ready", array |-> a, separator |-> sep] :
                   a \in HelperArrays \cup HelperNonArrays,
                   sep \in HelperSeparators}
  /\ manager = [pc |-> "idle"]
  /\ tool = [pc |-> "idle"]
  /\ get = [pc |-> "idle"]

\* the engine calls a registered helper
CallHelper(name) ==
  /\ helper.pc = "ready"
  /\ helper' = [pc |-> "done", array |-> helper.array,
                separator |-> helper.separator, name |-> name,
                out |-> CASE name = "join" ->
                               join(helper.array, helper.separator)
                          [] name = "first" -> first(helper.array)
                          [] name = "last" -> last(helper.array)
                          [] name = "length" -> length(helper.array)]
  /\ UNCHANGED <<loaderVars, render, scan, manager, tool, get>>

NextHelper == \E name \in RegisteredArrayHelpers : CallHelper(name)

SpecHelper == InitHelper /\ [][NextHelper]_vars

InitRender == InitLoaderOver(EmptyDirs, RenderPrompts) /\ InitRest

NextRender ==
  \/ /\ render.pc = "idle"
     /\ \E prompt \in RenderPrompts :
          \E variables \in RenderInputs(prompt) :
            RenderCall(prompt, variables)
  \/ RenderReject
  \/ RenderSubstitute

SpecRender == InitRender /\ [][NextRender]_vars

\* ------------------------------------------------------------------------
\* The loader's properties
\* ------------------------------------------------------------------------
\* which contents of the directory are prompt definitions that parse and
\* validate, by what they hold
WellFormed == {"review", "greeting", "greeting2"}

\* the files a scan of the directory finds now
ScanNow == Range(scanForPromptFiles(dir))
GoodFiles == {p \in ScanNow : dir[p] \in WellFormed}
BadFiles == {p \in ScanNow : dir[p] \notin WellFormed}

\* the definitions a load of the directory as it is accepts
AcceptedNow == {Ref(p, dir[p]) : p \in GoodFiles}

CacheValues == Range(MapValues(promptCache))
CacheNames == {promptCache[k][1] : k \in 1..Len(promptCache)}

\* every definition a reader can be handed
Served ==
  Range(getLoadedPrompts) \cup Range(searchPrompts(""))
  \cup {getCachedPrompt(n) : n \in CacheNames}

\* the cache holds, for the name of every definition the scan accepts, a
\* definition the scan accepts
CacheComplete ==
  \A r \in AcceptedNow :
    \E v \in CacheValues :
      v \in AcceptedNow /\ Deref(v).metadata.name = Deref(r).metadata.name

\* C1: while one loadPrompts call is in progress, a reader sees the cache as
\* it was before the call or the complete cache of the finished reload,
\* never only some of the definitions the scan accepts.
C1_ReloadIsAtomic ==
  \A c \in Callers :
    (call[c].pc \in InProgress /\ ~overlapped[c])
      => (promptCache = atStart[c].cache \/ CacheComplete)

\* C2: once a loadPrompts call has completed, every definition the readers
\* return is one that call's scan accepted: a definition whose file is gone
\* or no longer validates is not returned.
C2_CacheIsLastScan == quiet => Served \subseteq AcceptedNow

\* C3: a completed loadPrompts over N files that parse and validate and M
\* that do not returns N definitions and leaves successfulLoads = N,
\* failedLoads = M and successfulLoads + failedLoads = totalFiles.
C3_LoadCounts ==
  quiet =>
    /\ Len(lastRet) = Cardinality(GoodFiles)
    /\ loaderStats.successfulLoads = Cardinality(GoodFiles)
    /\ loaderStats.failedLoads = Cardinality(BadFiles)
    /\ loaderStats.successfulLoads + loaderStats.failedLoads
         = loaderStats.totalFiles

C3_Witness ==
  /\ quiet
  /\ Cardinality(GoodFiles) = 2
  /\ Cardinality(BadFiles) = 1
  /\ Len(lastRet) = 2

\* C4: a file whose template references {{unused}} without declaring it is
\* rejected by the load with an error naming "unused", and no definition
\* from that file is returned by getPrompt or searchPrompts.
C4_UnusedNeverServed ==
  quiet =>
    \A p \in ScanNow :
      dir[p] = "unused" =>
        /\ \E k \in 1..Len(loaderStats.errors) :
             /\ loaderStats.errors[k].file = p
             /\ Includes(loaderStats.errors[k].message, "unused")
        /\ \A r \in Served : Deref(r).filePath # p

\* C5: loadPrompts never ends in its catch block; every file that fails to
\* read, parse or validate is counted in failedLoads and has an error with
\* its path in the statistics, and every other file is still accepted.
C5_FailuresCollected ==
  /\ \A c \in Callers : ~call[c].caught
  /\ quiet =>
       /\ loaderStats.failedLoads = Cardinality(BadFiles)
       /\ \A p \in BadFiles :
            \E k \in 1..Len(loaderStats.errors) :
              loaderStats.errors[k].file = p
       /\ \A p \in GoodFiles : Ref(p, dir[p]) \in Range(lastRet)

C5_Witness ==
  /\ quiet
  /\ dir[Join(promptsDirectory, "a.yaml")] = "unreadable"
  /\ dir[Join(promptsDirectory, "b.yml")] = "badyaml"
  /\ dir[Join(promptsDirectory, "c.YAML")] = "review"
  /\ Len(lastRet) = 1
  /\ loaderStats.failedLoads = 2

\* C6: when two loadPrompts calls overlapped and both are done, the
\* statistics are those of one of the calls alone; in particular
\* successfulLoads + failedLoads = totalFiles.
C6_OverlapKeepsCounts ==
  NoLoadInProgress =>
    loaderStats.successfulLoads + loaderStats.failedLoads
      = loaderStats.totalFiles

\* C7: a completed loadPrompts that follows a completed loadPrompts on the
\* unchanged directory returns the same definitions and leaves the same
\* cache and the same statistics.
C7_Idempotent ==
  \A c \in Callers :
    (quiet /\ call[c].pc = "returned" /\ ~overlapped[c]
       /\ atStart[c].consecutive)
      => /\ lastRet = atStart[c].ret
         /\ promptCache = atStart[c].cache
         /\ loaderStats = atStart[c].stats

C7_Witness ==
  /\ quiet
  /\ call[1].pc = "returned"
  /\ atStart[1].consecutive
  /\ loaderStats.successfulLoads = 2
  /\ loaderStats.failedLoads = 1

\* ------------------------------------------------------------------------
\* The renderer's properties
\* ------------------------------------------------------------------------
\* the declared variables of the prompt being rendered
Declared == Deref(render.prompt).metadata.variables

\* what the loop body pushes for the i-th declared variable
ErrorsOf(i) ==
  CheckVariable(Declared[i], Lookup(render.variables, Declared[i].name))

\* the place of a variable in the declaration
DeclaredAt(name) == CHOOSE i \in 1..Len(Declared) : Declared[i].name = name

\* C8: a result of renderPrompt is a success with rendered text and no
\* errors, or a failure with at least one error and no rendered text.
C8_ResultShape ==
  render.pc = "done" =>
    \/ /\ render.result.success
       /\ render.result.rendered.t = "string"
       /\ render.result.errors = <<>>
    \/ /\ ~render.result.success
       /\ render.result.rendered = Undef
       /\ Len(render.result.errors) > 0

C8_Witness ==
  /\ render.pc = "done"
  /\ render.compiled
  /\ ~render.result.success
  /\ Len(render.result.errors) = 1

\* C9: the template is compiled and evaluated only when no declared
\* variable failed validation; a required text variable title rendered with
\* nothing supplied never reaches substitution.
C9_SubstituteOnlyIfValid ==
  /\ render.pc = "validated" => ~render.compiled
  /\ (render.pc = "done" /\ render.compiled) =>
       \A i \in 1..Len(Declared) : ErrorsOf(i) = <<>>
  /\ (render.pc = "done"
        /\ \E i \in 1..Len(Declared) :
             /\ Declared[i].name = "title"
             /\ Declared[i].required
             /\ Lookup(render.variables, "title") = Undef)
       => ~render.compiled

C9_Witness ==
  /\ render.pc = "done"
  /\ ~render.compiled
  /\ Deref(render.prompt).metadata.name = "greeting"
  /\ \A k \in DOMAIN render.variables : render.variables[k] = Undef
  /\ render.result.errors = <<"Required variable 'title' is missing">>

\* C10: validation reports one error for every declared variable that
\* fails its check, none for the others, in the order of the declaration,
\* and the failure returned lists exactly these.
C10_AllErrorsCollected ==
  render.pc # "idle" =>
    LET errors == render.validationErrors
    IN /\ \A i \in 1..Len(Declared) :
            (ErrorsOf(i) # <<>>) <=>
              (\E k \in 1..Len(errors) : <<errors[k]>> = ErrorsOf(i))
       /\ \A k \in 1..Len(errors) :
            \E i \in 1..Len(Declared) : errors[k].variable = Declared[i].name
       /\ \A j, k \in 1..Len(errors) :
            j < k => DeclaredAt(errors[j].variable)
                       < DeclaredAt(errors[k].variable)
       /\ (render.pc = "done" /\ Len(errors) > 0) =>
            render.result.errors = Messages(errors)

C10_Witness ==
  /\ render.pc = "done"
  /\ Deref(render.prompt).metadata.name = "report"
  /\ Len(render.result.errors) = 2
  /\ ErrorsOf(1) = <<>>

\* the value supplied for the i-th declared variable
Supplied(i) == Lookup(render.variables, Declared[i].name)

\* the validation errors that name a variable, in the order reported
ErrorsNaming(name) ==
  SelectSeq(render.validationErrors, LAMBDA e : e.variable = name)

\* C11: for a required variable the missing-required error is reported
\* exactly when the value is absent, null or the empty string, then with no
\* type error for the same variable; any other value, false and 0 included,
\* is judged by the type rule.
C11_MissingRequired ==
  render.pc # "idle" =>
    \A i \in 1..Len(Declared) :
      Declared[i].required =>
        LET named == ErrorsNaming(Declared[i].name)
            missing == "Required variable '" \o Declared[i].name
                       \o "' is missing"
        IN /\ (\E k \in 1..Len(named) : named[k].message = missing)
                <=> (Supplied(i) \in {Undef, Null, Str("")})
           /\ Supplied(i) \in {Undef, Null, Str("")} => Len(named) = 1
           /\ Supplied(i) \notin {Undef, Null, Str("")} =>
                named = validateVariableType(Declared[i], Supplied(i))

C11_Witness ==
  /\ render.pc = "validated"
  /\ Deref(render.prompt).metadata.name = "report"
  /\ render.variables["count"] = Num(0)
  /\ render.variables["lang"] = Str("")
  /\ Messages(render.validationErrors)
       = <<"Variable 'count' must be at least 1",
           "Required variable 'lang' is missing">>

\* C12: a value supplied for a number variable passes validation only if it
\* is a finite number within the min and max that are set; NaN, infinite
\* values and values that are not numbers get an error naming the variable.
C12_NumberRule ==
  render.pc # "idle" =>
    \A i \in 1..Len(Declared) :
      (Declared[i].type = "number" /\ Supplied(i) \notin {Undef, Null}) =>
        (ErrorsNaming(Declared[i].name) = <<>> =>
           /\ Supplied(i).t = "number"
           /\ Declared[i].min # Undef => Supplied(i).v >= Declared[i].min.v
           /\ Declared[i].max # Undef => Supplied(i).v <= Declared[i].max.v)

\* C13: a value supplied for a text variable passes validation only if it
\* is a string no longer than max_length, for every max_length that is set,
\* 0 included.
C13_TextRule ==
  render.pc # "idle" =>
    \A i \in 1..Len(Declared) :
      (Declared[i].type = "text" /\ Supplied(i) \notin {Undef, Null}) =>
        (ErrorsNaming(Declared[i].name) = <<>> =>
           /\ Supplied(i).t = "string"
           /\ Declared[i].max_length # Undef =>
                Len(Supplied(i).v) <= Declared[i].max_length.v)

C15_EngineFailureIsData ==
  /\ (render.pc = "done"
        /\ render.validationErrors = <<>>
        /\ Evaluate(Deref(render.prompt).template, 1, render.variables).threw)
       => /\ ~render.result.success
          /\ Len(render.result.errors) = 1
          /\ LitAt(render.result.errors[1], 1, "Template rendering error")
  /\ render.pc # "idle" =>
       \A k \in 1..Len(render.validationErrors) :
         ~LitAt(render.validationErrors[k].message, 1,
                "Template rendering error")

C15_Witness ==
  /\ render.pc = "done"
  /\ Deref(render.prompt).metadata.name = "broken"
  /\ render.variables["shout"] = Bool(TRUE)
  /\ render.result.errors
       = <<"Template rendering error: Parse error: expecting 'CLOSE'">>

\* ------------------------------------------------------------------------
\* The validator's properties, over the catalog
\* ------------------------------------------------------------------------
\* the identifiers in the {{name}}, {{#if name}} and {{#unless name}} tokens
\* of each template of the catalog, read off the template
TemplateReferences ==
  [review |-> {"lang"},
   greeting |-> {"title", "shout"},
   greeting2 |-> {"title"},
   unused |-> {"unused"},
   report |-> {"count", "items", "lang"},
   broken |-> {},
   limits |-> {"note", "score"},
   twice |-> {"title"},
   triple |-> {"lang"},
   noenum |-> {"mode", "kind"},
   badexample |-> {"lang"},
   ghosts |-> {"ghost", "phantom"},
   tangled |-> {"title", "ghost"},
   mixed |-> {"title", "ghost"},
   upper |-> {"title", "upper"},
   helpers |-> {"technologies", "complexity", "else"},
   tagged |-> {}]

\* C16: every definition in the cache has pairwise distinct variable names,
\* a non-empty values list for each enum variable, only declared variables
\* in the {{name}}, {{#if name}} and {{#unless name}} tokens of its
\* template, and only declared variables as keys of its examples.
C16_CacheConsistent ==
  \A r \in CacheValues :
    LET variables == Deref(r).metadata.variables
        examples == Deref(r).metadata.examples
        names == {variables[i].name : i \in 1..Len(variables)}
    IN /\ \A i, j \in 1..Len(variables) :
            i # j => variables[i].name # variables[j].name
       /\ \A i \in 1..Len(variables) :
            variables[i].type = "enum" =>
              /\ variables[i].values.t = "array"
              /\ Len(variables[i].values.v) > 0
       /\ TemplateReferences[r[2]] \subseteq names
       /\ \A e \in 1..Len(examples) :
            \A k \in 1..Len(examples[e].variables.v) :
              examples[e].variables.v[k][1] \in names

C16_Witness ==
  /\ quiet
  /\ dir[Join(promptsDirectory, "a.yaml")] = "report"
  /\ CacheNames = {"report", "code-review"}

\* The violations of each definition of the catalog, read off the
\* definition: each is a pair of texts that an error reporting it holds,
\* what is violated and the name it is about.
StructuralViolations(content) ==
  CASE content = "notitle" ->
         {<<"name:", "Expected string">>, <<"title:", "Required">>}
    [] content = "mixed" -> {<<"title:", "Required">>}
    [] OTHER -> {}

CrossViolations(content) ==
  CASE content = "unused" -> {<<"Template", "{{unused}}">>}
    [] content = "twice" -> {<<"Duplicate", "title">>}
    [] content = "triple" -> {<<"Duplicate", "lang">>}
    [] content = "noenum" -> {<<"Enum", "'mode'">>, <<"Enum", "'kind'">>}
    [] content = "badexample" -> {<<"Example", "level">>}
    [] content = "ghosts" ->
         {<<"Template", "{{ghost}}">>, <<"Template", "{{phantom}}">>}
    [] content = "tangled" ->
         {<<"Duplicate", "title">>, <<"Enum", "'mode'">>,
          <<"Template", "{{ghost}}">>, <<"Example", "level">>}
    [] content = "mixed" -> {<<"Template", "{{ghost}}">>}
    [] OTHER -> {}

\* the statistics hold an error of the file that reports the violation
Reported(path, violation) ==
  \E k \in 1..Len(loaderStats.errors) :
    /\ loaderStats.errors[k].file = path
    /\ Includes(loaderStats.errors[k].message, violation[1])
    /\ Includes(loaderStats.errors[k].message, violation[2])

\* C17 as stated: the errors of a file report every structural violation and
\* every cross-reference violation of the file.
C17_AllViolationsReported ==
  quiet =>
    \A p \in ScanNow :
      \A v \in StructuralViolations(dir[p]) \cup CrossViolations(dir[p]) :
        Reported(p, v)

\* C17 amended: the errors of a file with structural violations report
\* every structural violation, and the errors of a structurally valid file
\* report every cross-reference violation, not only those of the first
\* check that fails.
C17_EachValidatorReportsAll ==
  quiet =>
    \A p \in ScanNow :
      IF StructuralViolations(dir[p]) # {}
      THEN \A v \in StructuralViolations(dir[p]) : Reported(p, v)
      ELSE \A v \in CrossViolations(dir[p]) : Reported(p, v)

C17_Witness ==
  /\ quiet
  /\ dir[Join(promptsDirectory, "a.yaml")] = "tangled"
  /\ \A v \in CrossViolations("tangled") :
       Reported(Join(promptsDirectory, "a.yaml"), v)
  /\ loaderStats.failedLoads = 1

\* the names each definition of the catalog declares more than once
DuplicatedNames(content) ==
  CASE content = "twice" -> {"title"}
    [] content = "triple" -> {"lang"}
    [] content = "tangled" -> {"title"}
    [] OTHER -> {}

\* the errors of a file that report a duplicate of the name
DuplicateReports(path, name) ==
  {k \in 1..Len(loaderStats.errors) :
     /\ loaderStats.errors[k].file = path
     /\ Includes(loaderStats.errors[k].message, "Duplicate")
     /\ Includes(loaderStats.errors[k].message, name)}

\* C18: a variable name declared more than once gets exactly one error that
\* identifies it, however many times it is repeated.
C18_OneErrorPerDuplicate ==
  quiet =>
    \A p \in ScanNow :
      \A n \in DuplicatedNames(dir[p]) :
        Cardinality(DuplicateReports(p, n)) = 1

\* the names Handlebars.registerHelper is called with
HelperNames ==
  {"capitalize", "upper", "lower", "titleCase", "kebabCase", "join",
   "first", "last", "length", "default", "eq", "neq", "gt", "lt",
   "formatNumber"}

\* the errors of a file that report the identifier as an undefined variable
UndefinedReports(path, name) ==
  {k \in 1..Len(loaderStats.errors) :
     /\ loaderStats.errors[k].file = path
     /\ Includes(loaderStats.errors[k].message, "undefined variable")
     /\ Includes(loaderStats.errors[k].message, "{{" \o name \o "}}")}

\* C19: a template token that is the name of a registered helper, alone in
\* its mustache, gets no undefined-variable error although no variable of
\* that name is declared.
C19_HelpersExcluded ==
  quiet =>
    \A p \in ScanNow :
      \A h \in HelperNames : UndefinedReports(p, h) = {}

\* C20: the example prompt of the helper reference, whose template uses
\* {{else}} inside {{#if}} blocks and {{#each}}, and whose {{name}} and
\* {{#if name}} references are all declared, is accepted by a load and
\* served from the cache.
C20_HelperExampleAccepted ==
  quiet =>
    \A p \in ScanNow :
      dir[p] = "helpers" =>
        /\ \E r \in Served :
             /\ Deref(r).filePath = p
             /\ Deref(r).metadata.name = "advanced-example"
        /\ \A k \in 1..Len(loaderStats.errors) : loaderStats.errors[k].file # p

\* ------------------------------------------------------------------------
\* The readers' properties
\* ------------------------------------------------------------------------
\* the queries searched for, each with its lower-cased text
Queries ==
  {[query |-> "CODE", lower |-> "code"],
   [query |-> "DOCS", lower |-> "docs"],
   [query |-> "Again", lower |-> "again"],
   [query |-> "hello", lower |-> "hello"],
   [query |-> "development", lower |-> "development"],
   [query |-> "", lower |-> ""]}

\* the name, title, description and tags of each definition that can be
\* cached, in lower case, read off the definition
SearchTexts(content) ==
  CASE content = "review" ->
         {"code-review", "code review", "structured code review", "review"}
    [] content = "greeting" -> {"greeting", "says hello"}
    [] content = "greeting2" ->
         {"greeting", "greeting again", "says hello twice"}
    [] content = "report" -> {"report", "counts items"}
    [] content = "broken" -> {"broken", "a mustache that is never closed"}
    [] content = "limits" -> {"limits", "an empty note and a free score"}
    [] content = "tagged" -> {"summary", "short digest", "docs", "tl;dr"}
    [] OTHER -> {}

\* C21: searchPrompts(q) returns exactly the cached definitions that hold
\* the lower-cased q in their lower-cased name, title, description or in
\* one of their tags.
C21_SearchMatches ==
  \A q \in Queries :
    Range(searchPrompts(q.query))
      = {r \in CacheValues :
           \E text \in SearchTexts(r[2]) : Includes(text, q.lower)}

C21_Witness ==
  /\ quiet
  /\ searchPrompts("DOCS") = <<Ref(Join(promptsDirectory, "a.yaml"), "tagged")>>
  /\ searchPrompts("CODE") = <<Ref(Join(promptsDirectory, "b.yml"), "review")>>
  /\ searchPrompts("development") = <<>>

\* ------------------------------------------------------------------------
\* The scanner's properties
\* ------------------------------------------------------------------------
\* the directory a path of the tree is in
TreeParent ==
  [p \in TreePaths \ {promptsDirectory} |->
     CHOOSE d \in DOMAIN TreeChildren :
       \E entry \in TreeChildren[d] : Join(d, entry) = p]

\* the directories from the root down to the one a path is in
RECURSIVE TreeAncestors(_)
TreeAncestors(p) ==
  IF p = promptsDirectory THEN {}
  ELSE {TreeParent[p]} \cup TreeAncestors(TreeParent[p])

\* the paths of the tree that name a prompt file, by their extension
TreeCandidates ==
  {Join(promptsDirectory, "a.yaml"), Join(promptsDirectory, "b.YML"),
   Join(Join(promptsDirectory, "sub"), "c.yml"),
   Join(Join(Join(promptsDirectory, "sub"), "deep"), "e.yaml")}

\* the readable regular files with such a name: each directory above them
\* can be listed
ReadableCandidates(tree) ==
  {p \in TreeCandidates :
     tree[p] = "file" /\ \A d \in TreeAncestors(p) : tree[d] = "dir"}

\* C22: two scans of the same unchanged directory tree return the files in
\* the same order, whatever the order in which the file system enumerates
\* the entries of a directory.
C22_ScanOrderDeterministic ==
  (scan.pc = "ready" /\ Len(scan.results) = 2) =>
    scan.results[1] = scan.results[2]

\* C23: a scan returns every readable regular file at any depth whose
\* extension is .yaml or .yml, once, and no other file; an entry stat fails
\* on and a directory readdir fails on are skipped, and the files next to
\* them are still returned.
C23_ScanFindsAll ==
  scan.pc = "ready" =>
    \A k \in 1..Len(scan.results) :
      /\ Range(scan.results[k]) = ReadableCandidates(scan.tree)
      /\ Len(scan.results[k]) = Cardinality(ReadableCandidates(scan.tree))

C23_Witness ==
  /\ scan.pc = "ready"
  /\ scan.tree[Join(promptsDirectory, "a.yaml")] = "nostat"
  /\ scan.tree[Join(promptsDirectory, "sub")] = "dir"
  /\ scan.tree[Join(Join(promptsDirectory, "sub"), "deep")] = "nolist"
  /\ Len(scan.results) = 2
  /\ Range(scan.results[2])
       = {Join(promptsDirectory, "b.YML"),
          Join(Join(promptsDirectory, "sub"), "c.yml")}

\* ------------------------------------------------------------------------
\* The array helpers' properties
\* ------------------------------------------------------------------------
\* where the text of element k begins in a joined text
RECURSIVE JoinedOffset(_, _, _)
JoinedOffset(values, separator, k) ==
  IF k = 1 THEN 1
  ELSE JoinedOffset(values, separator, k - 1)
       + Len(ValueText(values[k - 1])) + Len(separator)

\* text is the texts of the elements in their order with the separator
\* between each two of them, and nothing else
IsJoined(text, values, separator) ==
  IF values = <<>> THEN text = ""
  ELSE LET n == Len(values)
       IN /\ Len(text) = JoinedOffset(values, separator, n)
                         + Len(ValueText(values[n])) - 1
          /\ \A k \in 1..n :
               LitAt(text, JoinedOffset(values, separator, k),
                     ValueText(values[k]))
          /\ \A k \in 1..(n - 1) :
               LitAt(text, JoinedOffset(values, separator, k + 1)
                           - Len(separator), separator)

\* C25: first and last return the first and the last element of a non-empty
\* array and the empty string for an empty array and for a value that is no
\* array; length returns the number of elements and 0 for a value that is no
\* array; join returns the elements joined by the separator and the empty
\* string for a value that is no array.
C25_ArrayHelpersTotal ==
  helper.pc = "done" =>
    LET array == helper.array
        isArray == array \in HelperArrays
        n == IF isArray THEN Len(array.v) ELSE 0
    IN /\ helper.name = "first" =>
            helper.out = (IF n > 0 THEN Head(array.v) ELSE Str(""))
       /\ helper.name = "last" =>
            /\ n > 0 => Arr(Append(SubSeq(array.v, 1, n - 1), helper.out))
                          = array
            /\ n = 0 => helper.out = Str("")
       /\ helper.name = "length" =>
            /\ helper.out.t = "number"
            /\ helper.out.v = n
       /\ helper.name = "join" =>
            /\ helper.out.t = "string"
            /\ isArray => IsJoined(helper.out.v, array.v, helper.separator)
            /\ ~isArray => helper.out.v = ""

C25_Witness ==
  /\ helper.pc = "done"
  /\ helper.name = "join"
  /\ helper.array = Arr(<<Str("a"), Str("b")>>)
  /\ helper.separator = " | "
  /\ helper.out = Str("a | b")

\* ------------------------------------------------------------------------
\* The cache after clearCache
\* ------------------------------------------------------------------------
\* C29: after clearCache and a completed loadPrompts that no other load
\* overlapped, getLoadedPrompts returns as many definitions as
\* successfulLoads counts and as the list loadPrompts returned holds, also
\* when two accepted files declare the same name.
C29_OneEntryPerDefinition ==
  \A c \in Callers :
    (quiet /\ call[c].pc = "returned" /\ ~overlapped[c]
       /\ atStart[c].cache = <<>>)
      => /\ Len(getLoadedPrompts) = loaderStats.successfulLoads
         /\ Len(getLoadedPrompts) = Len(call[c].ret)

\* the categories a reader asks for: the declared ones, the word the URIs
\* use for none, and one that no definition has
Categories == {"development", "social", "examples", "uncategorized", "misc"}

\* C30: clearCache removes every definition, so that getLoadedPrompts,
\* getPromptsByCategory, getAllCategories and searchPrompts return nothing
\* right after it, and it leaves the statistics of the last load as they
\* were.
C30_ClearCacheKeepsStats ==
  [][ClearCache =>
       /\ getLoadedPrompts' = <<>>
       /\ getAllCategories' = <<>>
       /\ \A category \in Categories : getPromptsByCategory(category)' = <<>>
       /\ \A q \in Queries : searchPrompts(q.query)' = <<>>
       /\ getLoaderStats' = getLoaderStats]_vars

C30_Witness ==
  /\ promptCache = <<>>
  /\ NoLoadInProgress
  /\ getLoaderStats.successfulLoads = 2
  /\ getLoaderStats.failedLoads = 1
  /\ getLoaderStats.errors # <<>>

\* ------------------------------------------------------------------------
\* getPrompt's properties
\* ------------------------------------------------------------------------
\* the name each well-formed file declares
DeclaredName ==
  [review |-> "code-review", greeting |-> "greeting",
   greeting2 |-> "greeting"]

\* the files of a directory that are accepted and declare a name
AcceptedWithName(d, name) ==
  {p \in Range(scanForPromptFiles(d)) :
     d[p] \in WellFormed /\ DeclaredName[d[p]] = name}

\* C26: getPrompt(name) returns the cached definition without a load and
\* without a change of the statistics when the name is cached; when it is
\* not, it makes one full loadPrompts, which resets the statistics, and
\* returns the definition of that name if the load accepted one and null
\* if it accepted none.
C26_GetPrompt ==
  get.pc = "done" =>
    LET cached == {get.cache[k][1] : k \in 1..Len(get.cache)}
        files == Range(scanForPromptFiles(get.dir))
        good == {p \in files : get.dir[p] \in WellFormed}
        named == AcceptedWithName(get.dir, get.name)
    IN IF get.name \in cached
       THEN /\ get.loads = 0
            /\ \E k \in 1..Len(get.cache) : get.cache[k] = <<get.name, get.out>>
            /\ get.statsAfter = get.stats
       ELSE /\ get.loads = 1
            /\ get.statsAfter.totalFiles = Cardinality(files)
            /\ get.statsAfter.successfulLoads = Cardinality(good)
            /\ get.statsAfter.failedLoads = Cardinality(files \ good)
            /\ named = {} => get.out = Null
            /\ named # {} => get.out \in {Ref(p, get.dir[p]) : p \in named}

\* a miss that loads and finds the name, then a hit on a file that has
\* changed since
C26_Witness ==
  /\ get.pc = "done"
  /\ get.name = "code-review"
  /\ get.loads = 0
  /\ get.out = Ref(Join(promptsDirectory, "a.yaml"), "review")
  /\ dir[Join(promptsDirectory, "a.yaml")] = "unused"
  /\ get.stats.successfulLoads = 1

\* ------------------------------------------------------------------------
\* The tools' properties
\* ------------------------------------------------------------------------
\* what an argument of execute-prompt asks for: the category and the name
\* its URI carries and whether its variables fit that definition; no
\* category for a URI that is malformed or missing
Asked(args) ==
  IF args \in {Undef, Null} \/ args.v.promptUri \notin
       {Str("prompt://prompt/invalid/prompt"),
        Str("prompt://prompt/development/code-review"),
        Str("prompt://prompt/social/greeting"),
        Str("prompt://prompt/uncategorized/greeting"),
        Str("prompt://prompt/uncategorized/summary")}
  THEN [category |-> "", name |-> "", fits |-> FALSE, rendered |-> ""]
  ELSE CASE args.v.promptUri = Str("prompt://prompt/development/code-review")
              -> [category |-> "development", name |-> "code-review",
                  fits |-> args.v.variables = Obj([lang |-> Str("Go")]),
                  rendered |-> "Language: Go"]
         [] args.v.promptUri = Str("prompt://prompt/social/greeting")
              -> [category |-> "social", name |-> "greeting",
                  fits |-> TRUE, rendered |-> "Hello, hello you"]
         [] args.v.promptUri = Str("prompt://prompt/uncategorized/greeting")
              -> [category |-> "uncategorized", name |-> "greeting",
                  fits |-> TRUE, rendered |-> "Hello you"]
         [] args.v.promptUri = Str("prompt://prompt/uncategorized/summary")
              -> [category |-> "uncategorized", name |-> "summary",
                  fits |-> TRUE, rendered |-> "Sum"]
         [] OTHER
              -> [category |-> "invalid", name |-> "prompt",
                  fits |-> TRUE, rendered |-> ""]

\* the cache holds a definition declared with that category and that name
CachedAs(cache, category, name) ==
  \E k \in 1..Len(cache) :
    /\ cache[k][1] = name
    /\ cache[k][2][2] \in
         CASE category = "development" -> {"review", "report"}
           [] category = "social" -> {"greeting2"}
           [] OTHER -> {}

\* C24: callPromptTool throws for a tool name other than execute-prompt and
\* search-prompts and for no other call; execute-prompt returns isError =
\* true for a malformed URI, a URI that names no cached definition of the
\* category it carries, and variables the definition rejects, and returns
\* the rendered text without isError otherwise.
C24_ToolErrorsAreData ==
  tool.pc = "done" =>
    /\ tool.out.threw
         <=> tool.name \notin {"execute-prompt", "search-prompts"}
    /\ tool.name = "execute-prompt" =>
         LET asked == Asked(tool.args)
             succeeds == /\ asked.fits
                         /\ CachedAs(tool.cache, asked.category, asked.name)
         IN /\ tool.out.isError <=> ~succeeds
            /\ succeeds => tool.out.rendered = Str(asked.rendered)
            /\ ~succeeds => tool.out.text # ""

C24_Witness ==
  /\ tool.pc = "done"
  /\ tool.name = "execute-prompt"
  /\ tool.args = Obj([promptUri |-> Undef, variables |-> Undef])
  /\ ~tool.out.threw
  /\ tool.out.isError
  /\ tool.cache # <<>>

\* C27: every prompt URI that listResources lists and that search-prompts
\* returns is the URI of a cached definition, and readResource and
\* execute-prompt resolve it to that definition, whether the definition has
\* a category or not.
C27_UrisResolve ==
  \A r \in CacheValues :
    LET uri == PromptUri(r)
    IN /\ uri \in Range(listResources)
       /\ uri \in Range(searchPromptsTool(
                          Obj([query |-> Str(""), category |-> Undef,
                               tags |-> Undef])).uris)
       /\ ~readResource(uri).threw
       /\ readResource(uri).prompts = <<r>>
       /\ findPromptByUri(Str(uri)) = <<r>>

\* ------------------------------------------------------------------------
\* The manager's property
\* ------------------------------------------------------------------------
\* C28: over any calls of listResources, listResourceTemplates and
\* readResource on one manager, overlapping or not, initialize starts
\* loadPrompts at most once.
C28_OneLoad == manager.loads <= 1
====
